---- MODULE Spec2Model ----
(***************************************************************************)
(* A model of the XFS realtime extent allocator, fs/xfs/xfs_rtalloc.c:     *)
(* the bitmap / summary / summary-cache state of the single realtime       *)
(* group, the three searches (exact, near, size), the range update, the    *)
(* top-level allocator and the online grow procedure.                      *)
(*                                                                         *)
(* The bitmap and summary codecs (xfs_rtfind_back, xfs_rtfind_forw,        *)
(* xfs_rtcheck_range, xfs_rtmodify_range, xfs_rtget_summary,               *)
(* xfs_rtmodify_summary, xfs_rtfree_range, xfs_rtfree_extent) and the      *)
(* geometry helpers live in libxfs/xfs_rtbitmap.c, which is not part of    *)
(* the source tree modelled here; they are modelled from sections 3, 4.1,  *)
(* 4.2 and 4.3 of the design text and from the way xfs_rtalloc.c calls     *)
(* them.                                                                   *)
(*                                                                         *)
(* Scaling.  A bitmap word has 2 bits instead of 32 and a block has 2      *)
(* words instead of blocksize/4, so a bitmap block covers 4 rtx.  Summary  *)
(* counters are 32-bit words; a counter value v stands for v mod 2^32, so  *)
(* a negative v is a counter that wrapped below zero.                      *)
(***************************************************************************)
EXTENDS Integers, Sequences, FiniteSets, TLC

(***************************************************************************)
(* Bounds of the model.                                                    *)
(***************************************************************************)
\* largest size of the realtime region, in filesystem blocks
MaxRblocks == 5
\* largest maxlen of an allocation request, in rtx
MaxLen == 2
\* largest region, in rtx, the search functions are called on by themselves
MaxFnRtx == 5
\* largest request length of those calls
MaxFnLen == 4
\* largest region, in rtx, of the calls of the near search: three bitmap
\* blocks
MaxNearRtx == 9
\* largest request length of those calls
MaxNearLen == 3

(***************************************************************************)
(* Scaled geometry constants.                                              *)
(***************************************************************************)
\* log2 of the bits in a bitmap word (XFS_NBWORDLOG, 5 in the source)
XFS_NBWORDLOG == 1
\* log2 of the words in a block (mp->m_blockwsize is 2^m_blockwlog)
m_blockwlog == 1
\* log2 of the bits in a block (mp->m_blkbit_log)
m_blkbit_log == XFS_NBWORDLOG + m_blockwlog
\* rtx covered by one bitmap block
BitsPerBlock == 2 ^ m_blkbit_log
\* summary counters in one block (a counter is one word)
m_blockwsize == 2 ^ m_blockwlog
\* memset(rsum_cache, -1, ...) : a uint8_t of all ones
CacheMax == 255

\* the element of a set of one element: Only({e(x) : x \in {v}}) is e(v)
\* with v worked out once
Only(S) == CHOOSE x \in S : TRUE
Min(a, b) == IF a < b THEN a ELSE b
Max(a, b) == IF a > b THEN a ELSE b
HowMany(x, y) == (x + y - 1) \div y
RoundDown(x, y) == x - (x % y)

\* xfs_highbit32 / xfs_highbit64: index of the highest set bit, -1 for 0
RECURSIVE xfs_highbit(_)
xfs_highbit(v) ==
    IF v <= 0 THEN -1 ELSE IF v = 1 THEN 0 ELSE 1 + xfs_highbit(v \div 2)

(***************************************************************************)
(* Geometry (section 3 of the design text).                                *)
(***************************************************************************)
\* xfs_rtbitmap_blockcount: bitmap blocks needed for rtextents rtx
xfs_rtbitmap_blockcount(rtextents) == HowMany(rtextents, BitsPerBlock)
\* xfs_compute_rextslog: floor(log2(rtextents)), 0 for an empty region
xfs_compute_rextslog(rtextents) ==
    IF rtextents = 0 THEN 0 ELSE xfs_highbit(rtextents)
\* xfs_rtsummary_blockcount: blocks holding rsumlevels * rbmblocks counters
xfs_rtsummary_blockcount(rsumlevels, rbmblocks) ==
    HowMany(rsumlevels * rbmblocks, m_blockwsize)
\* xfs_rtx_to_rbmblock: the bitmap block holding the bit of rtx
xfs_rtx_to_rbmblock(rtx) == rtx \div BitsPerBlock
\* xfs_rbmblock_to_rtx: the first rtx of bitmap block bbno
xfs_rbmblock_to_rtx(bbno) == bbno * BitsPerBlock
\* xfs_rtx_to_rbmword: index, within its block, of the word holding rtx
xfs_rtx_to_rbmword(rtx) == (rtx \div (2 ^ XFS_NBWORDLOG)) % m_blockwsize

\* largest region and request of the calls of xfs_bmap_rtalloc on its own
MaxBmapRtx == 5
MaxBmapLen == 3

\* largest mounted region the watched grows start from, and the largest
\* size they ask for
MaxGrowRtx == 3
MaxGrowRblocks == 8

\* sizes of the model's arrays, derived from the bound on the region
MaxRtx ==
    Max(Max(Max(MaxRblocks, MaxGrowRblocks), MaxBmapRtx),
        Max(MaxFnRtx, MaxNearRtx))
MaxBmBlocks == xfs_rtbitmap_blockcount(MaxRtx)
MaxBits == MaxBmBlocks * BitsPerBlock
MaxLevels == xfs_compute_rextslog(MaxRtx) + 1
SumCells == MaxLevels * MaxBmBlocks

(***************************************************************************)
(* Bitmap codec (section 4.1).  A bitmap is a function 0..MaxBits-1 ->     *)
(* {0,1}; 1 is free.                                                       *)
(***************************************************************************)
RECURSIVE FindBack(_, _, _)
FindBack(bm, i, v) ==
    IF i = 0 \/ bm[i - 1] # v THEN i ELSE FindBack(bm, i - 1, v)

\* xfs_rtfind_back: first rtx of the run of equal bits that holds start
xfs_rtfind_back(bm, start) == FindBack(bm, start, bm[start])

RECURSIVE FindForw(_, _, _, _)
FindForw(bm, i, limit, v) ==
    IF i >= limit \/ bm[i + 1] # v THEN i ELSE FindForw(bm, i + 1, limit, v)

\* xfs_rtfind_forw: last rtx, not past limit, of the run of equal bits
\* that holds start
xfs_rtfind_forw(bm, start, limit) == FindForw(bm, start, limit, bm[start])

\* xfs_rtcheck_range: are the len bits from start all equal to val; new is
\* start + len when they are, else the first rtx whose bit differs
xfs_rtcheck_range(bm, start, len, val) ==
    LET diff == {k \in start..(start + len - 1) : bm[k] # val}
    IN  IF diff = {} THEN [new |-> start + len, stat |-> TRUE]
        ELSE [new |-> CHOOSE k \in diff : \A j \in diff : k <= j,
              stat |-> FALSE]

\* xfs_rtmodify_range: write val to the len bits from start
xfs_rtmodify_range(bm, start, len, val) ==
    [k \in DOMAIN bm |-> IF start <= k /\ k < start + len THEN val ELSE bm[k]]

(***************************************************************************)
(* Summary codec (section 4.2).  The summary file is a flat array of       *)
(* counters; cell (log, bbno) of a geometry with rbmblocks bitmap blocks   *)
(* is at index log * rbmblocks + bbno (section 6).                         *)
(***************************************************************************)
\* xfs_rtsumoffs
xfs_rtsumoffs(rbmblocks, log, bbno) == log * rbmblocks + bbno

\* does the cell lie inside the summary file
SumCellOk(rbmblocks, log, bbno) ==
    /\ log >= 0
    /\ xfs_rtsumoffs(rbmblocks, log, bbno) \in 0..(SumCells - 1)

\* xfs_rtget_summary
xfs_rtget_summary(sm, rbmblocks, log, bbno) ==
    sm[xfs_rtsumoffs(rbmblocks, log, bbno)]


(***************************************************************************)
(* The summary cache rtg->rtg_rsum_cache: c.ok is whether the pointer is   *)
(* set, c.len the length it was allocated with, c.b its bytes.  c.b is     *)
(* defined for every bitmap block of the model: the entries at and past    *)
(* c.len are the bytes that follow the array in memory.                    *)
(*                                                                         *)
(* The group's structures as the codecs see them: d.bm the bitmap, d.sm    *)
(* the summary, d.cache the summary cache, d.err whether a codec call has  *)
(* failed.                                                                 *)
(***************************************************************************)
Disk(bm, sm, cache) == [bm |-> bm, sm |-> sm, cache |-> cache, err |-> FALSE]

\* xfs_rtmodify_summary: add delta to cell (log, bbno); a nonzero result
\* raises the cached bound of the block to log + 1 when it was lower.  A
\* cell outside the summary file is reported as corruption.
xfs_rtmodify_summary(d, rbmblocks, log, bbno, delta) ==
    IF d.err THEN d
    ELSE IF ~SumCellOk(rbmblocks, log, bbno) THEN [d EXCEPT !.err = TRUE]
    ELSE LET so == xfs_rtsumoffs(rbmblocks, log, bbno)
             val == d.sm[so] + delta
         IN  [d EXCEPT !.sm[so] = val,
                       !.cache.b[bbno] =
                           IF d.cache.ok /\ val # 0 /\ log >= d.cache.b[bbno]
                           THEN log + 1 ELSE d.cache.b[bbno]]

\* a call of xfs_rtmodify_summary that is made only under a condition
ModifySummaryIf(cond, d, rbmblocks, log, bbno, delta) ==
    IF cond THEN xfs_rtmodify_summary(d, rbmblocks, log, bbno, delta) ELSE d

\* a faulty xfs_rtallocate_range: the remnant after the range is counted in
\* the bitmap block of the remnant before it
xfs_rtallocate_range_samebucket(d, rbmblocks, rtg_ext, start, len) ==
    LET end == start + len - 1
    IN  Only({
        IF d3.err THEN d3
        ELSE [d3 EXCEPT !.bm = xfs_rtmodify_range(d3.bm, start, len, 0)] :
        d3 \in {Only({
            ModifySummaryIf(postblock > end,
                ModifySummaryIf(preblock < start,
                    xfs_rtmodify_summary(d, rbmblocks,
                        xfs_highbit(postblock + 1 - preblock),
                        xfs_rtx_to_rbmblock(preblock), -1),
                    rbmblocks, xfs_highbit(start - preblock),
                    xfs_rtx_to_rbmblock(preblock), 1),
                rbmblocks, xfs_highbit(postblock - end),
                xfs_rtx_to_rbmblock(preblock), 1) :
            preblock \in {xfs_rtfind_back(d.bm, start)},
            postblock \in {xfs_rtfind_forw(d.bm, end, rtg_ext - 1)}})}})

\* xfs_rtallocate_range: mark [start, start + len) allocated and move the
\* free run that held it to the classes of its remnants
xfs_rtallocate_range(d, rbmblocks, rtg_ext, start, len) ==
    LET end == start + len - 1
    IN  Only({
        IF d3.err THEN d3
        ELSE [d3 EXCEPT !.bm = xfs_rtmodify_range(d3.bm, start, len, 0)] :
        d3 \in {Only({
            ModifySummaryIf(postblock > end,
                ModifySummaryIf(preblock < start,
                    xfs_rtmodify_summary(d, rbmblocks,
                        xfs_highbit(postblock + 1 - preblock),
                        xfs_rtx_to_rbmblock(preblock), -1),
                    rbmblocks, xfs_highbit(start - preblock),
                    xfs_rtx_to_rbmblock(preblock), 1),
                rbmblocks, xfs_highbit(postblock - end),
                xfs_rtx_to_rbmblock(end + 1), 1) :
            preblock \in {xfs_rtfind_back(d.bm, start)},
            postblock \in {xfs_rtfind_forw(d.bm, end, rtg_ext - 1)}})}})

\* xfs_rtfree_range: the mirror of xfs_rtallocate_range: merge
\* [start, start + len) with the free runs next to it, take their buckets
\* out of the summary, add the bucket of the merged run, set the bits
xfs_rtfree_range(d, rbmblocks, rtg_ext, start, len) ==
    LET end == start + len - 1
    IN  Only({
        IF d3.err THEN d3
        ELSE [d3 EXCEPT !.bm = xfs_rtmodify_range(d3.bm, start, len, 1)] :
        d3 \in {Only({
            xfs_rtmodify_summary(
                ModifySummaryIf(postblock > end,
                    ModifySummaryIf(preblock < start, d, rbmblocks,
                        xfs_highbit(start - preblock),
                        xfs_rtx_to_rbmblock(preblock), -1),
                    rbmblocks, xfs_highbit(postblock - end),
                    xfs_rtx_to_rbmblock(end + 1), -1),
                rbmblocks, xfs_highbit(postblock + 1 - preblock),
                xfs_rtx_to_rbmblock(preblock), 1) :
            preblock \in {IF start > 0 /\ d.bm[start - 1] = 1
                          THEN xfs_rtfind_back(d.bm, start - 1) ELSE start},
            postblock \in {IF end + 1 <= rtg_ext - 1 /\ d.bm[end + 1] = 1
                           THEN xfs_rtfind_forw(d.bm, end + 1, rtg_ext - 1)
                           ELSE end}})}})

(***************************************************************************)
(* Length helpers.                                                         *)
(***************************************************************************)
\* a faulty xfs_rtalloc_align_len: no rounding
xfs_rtalloc_align_len_none(rtxlen, prod) == rtxlen

\* xfs_rtalloc_align_len: reduce rtxlen to a multiple of prod
xfs_rtalloc_align_len(rtxlen, prod) ==
    IF prod > 1 THEN RoundDown(rtxlen, prod) ELSE rtxlen

\* xfs_rtallocate_clamp_len: do not run off the end of the rt volume
xfs_rtallocate_clamp_len(rtg_ext, startrtx, rtxlen, prod) ==
    xfs_rtalloc_align_len(Min(rtg_ext, startrtx + rtxlen) - startrtx, prod)


(***************************************************************************)
(* Searches.  A search result is [err, rtx, len, next]: err is "ok",       *)
(* "ENOSPC" or "EIO"; next is the *nextp of xfs_rtallocate_extent_block.   *)
(***************************************************************************)
Found(rtx, len) == [err |-> "ok", rtx |-> rtx, len |-> len, next |-> 0]
NoSpace(next) == [err |-> "ENOSPC", rtx |-> 0, len |-> 0, next |-> next]
IoError == [err |-> "EIO", rtx |-> 0, len |-> 0, next |-> 0]

\* a faulty xfs_rtany_summary: the cached bound is set to the class found
\* instead of one above it
xfs_rtany_summary_low(sm, cache, rbmblocks, low, high0, bbno) ==
    LET high == IF cache.ok THEN Min(high0, cache.b[bbno] - 1) ELSE high0
        hits == {l \in low..high :
                    sm[xfs_rtsumoffs(rbmblocks, l, bbno)] # 0}
        maxlog == IF hits = {} THEN -1
                  ELSE CHOOSE l \in hits : \A k \in hits : k <= l
        log == IF hits = {} THEN Min(low - 1, high) ELSE maxlog
    IN  IF cache.ok /\ low > high
        THEN [maxlog |-> -1, cache |-> cache]
        ELSE [maxlog |-> maxlog,
              cache |-> IF cache.ok /\ log < cache.b[bbno] /\ log >= 0
                        THEN [cache EXCEPT !.b[bbno] = log]
                        ELSE cache]

\* a faulty xfs_rtany_summary: the cached bound is set to log + 1 whether
\* that is lower or not
xfs_rtany_summary_always(sm, cache, rbmblocks, low, high0, bbno) ==
    LET high == IF cache.ok THEN Min(high0, cache.b[bbno] - 1) ELSE high0
        hits == {l \in low..high :
                    xfs_rtget_summary(sm, rbmblocks, l, bbno) # 0}
        maxlog == IF hits = {} THEN -1
                  ELSE CHOOSE l \in hits : \A k \in hits : k <= l
        log == IF hits = {} THEN Min(low - 1, high0) ELSE maxlog
    IN  [maxlog |-> maxlog,
         cache |-> IF cache.ok THEN [cache EXCEPT !.b[bbno] = log + 1]
                   ELSE cache]

\* xfs_rtany_summary: the highest class in low..high with a nonzero cell
\* for bbno, or -1; tightens the cached bound of bbno
xfs_rtany_summary(sm, cache, rbmblocks, low, high0, bbno) ==
    LET high == IF cache.ok THEN Min(high0, cache.b[bbno] - 1) ELSE high0
        hits == {l \in low..high :
                    xfs_rtget_summary(sm, rbmblocks, l, bbno) # 0}
        maxlog == IF hits = {} THEN -1
                  ELSE CHOOSE l \in hits : \A k \in hits : k <= l
        \* the loop counter at the out: label
        log == IF hits = {} THEN Min(low - 1, high) ELSE maxlog
    IN  IF cache.ok /\ low > high
        THEN [maxlog |-> -1, cache |-> cache]
        ELSE [maxlog |-> maxlog,
              cache |-> IF cache.ok /\ log + 1 < cache.b[bbno]
                        THEN [cache EXCEPT !.b[bbno] = log + 1]
                        ELSE cache]

\* the for loop of xfs_rtallocate_extent_block, from candidate i on
RECURSIVE BlockScan(_, _, _, _, _, _, _, _, _, _)
BlockScan(bm, rtg_ext, end, minlen, maxlen, prod, i, besti, bestlen, next) ==
    IF i > end
    THEN [done |-> FALSE, besti |-> besti, bestlen |-> bestlen, next |-> next]
    ELSE
    LET scanlen == xfs_rtallocate_clamp_len(rtg_ext, i, maxlen, prod)
    IN  IF scanlen < minlen
        THEN [done |-> FALSE, besti |-> besti, bestlen |-> bestlen,
              next |-> next]
        ELSE Only({
            LET thislen == chk.new - i
                better == /\ minlen < maxlen /\ thislen >= minlen
                          /\ thislen > bestlen
                besti2 == IF better THEN i ELSE besti
                bestlen2 == IF better THEN thislen ELSE bestlen
            IN  IF chk.stat
                THEN [done |-> TRUE, besti |-> i, bestlen |-> scanlen,
                      next |-> chk.new]
                ELSE IF chk.new >= end
                THEN [done |-> FALSE, besti |-> besti2, bestlen |-> bestlen2,
                      next |-> chk.new]
                ELSE BlockScan(bm, rtg_ext, end, minlen, maxlen, prod,
                               xfs_rtfind_forw(bm, chk.new, end) + 1,
                               besti2, bestlen2, chk.new) :
            chk \in {xfs_rtcheck_range(bm, i, scanlen, 1)}})

\* a faulty xfs_rtallocate_extent_block: the best piece is returned at its
\* full length
xfs_rtallocate_extent_block_unrounded(bm, rtg_ext, bbno, minlen, maxlen, prod, junk) ==
    LET end == Min(rtg_ext, xfs_rbmblock_to_rtx(bbno + 1)) - 1
    IN  Only({
        IF s.done THEN Found(s.besti, s.bestlen)
        ELSE IF s.besti = -1 THEN NoSpace(s.next)
        ELSE Found(s.besti, s.bestlen) :
        s \in {BlockScan(bm, rtg_ext, end, minlen, maxlen, prod,
                         xfs_rbmblock_to_rtx(bbno), -1, 0, junk)}})

\* xfs_rtallocate_extent_block: an extent minlen <= len <= maxlen starting
\* in bitmap block bbno.  junk is the value the uninitialised local next
\* holds when the loop ends before its first xfs_rtcheck_range.
xfs_rtallocate_extent_block(bm, rtg_ext, bbno, minlen, maxlen, prod, junk) ==
    LET end == Min(rtg_ext, xfs_rbmblock_to_rtx(bbno + 1)) - 1
    IN  Only({
        LET bestlen == xfs_rtalloc_align_len(s.bestlen, prod)
        IN  IF s.done THEN Found(s.besti, s.bestlen)
            ELSE IF s.besti = -1 THEN NoSpace(s.next)
            ELSE IF bestlen < minlen THEN NoSpace(s.next)
            ELSE Found(s.besti, bestlen) :
        s \in {BlockScan(bm, rtg_ext, end, minlen, maxlen, prod,
                         xfs_rbmblock_to_rtx(bbno), -1, 0, junk)}})

\* a faulty xfs_rtallocate_extent_exact: the result of xfs_rtcheck_range is
\* not looked at
xfs_rtallocate_extent_exact_unchecked(bm, rtg_ext, start, minlen, maxlen, prod) ==
    LET scanlen == xfs_rtallocate_clamp_len(rtg_ext, start, maxlen, prod)
    IN  IF scanlen < minlen THEN NoSpace(0) ELSE Found(start, scanlen)

\* a faulty xfs_rtallocate_extent_exact: the shorter extent is not rounded
\* down to prod
xfs_rtallocate_extent_exact_unrounded(bm, rtg_ext, start, minlen, maxlen, prod) ==
    LET scanlen == xfs_rtallocate_clamp_len(rtg_ext, start, maxlen, prod)
        chk == xfs_rtcheck_range(bm, start, scanlen, 1)
        alloclen == chk.new - start
    IN  IF scanlen < minlen THEN NoSpace(0)
        ELSE IF chk.stat THEN Found(start, scanlen)
        ELSE IF alloclen < minlen THEN NoSpace(0)
        ELSE Found(start, alloclen)

\* xfs_rtallocate_extent_exact: an extent minlen <= len <= maxlen starting
\* at start
xfs_rtallocate_extent_exact(bm, rtg_ext, start, minlen, maxlen, prod) ==
    LET scanlen == xfs_rtallocate_clamp_len(rtg_ext, start, maxlen, prod)
        chk == xfs_rtcheck_range(bm, start, scanlen, 1)
        alloclen == chk.new - start
    IN  IF scanlen < minlen THEN NoSpace(0)
        ELSE IF chk.stat THEN Found(start, scanlen)
        ELSE IF alloclen < minlen THEN NoSpace(0)
        ELSE IF xfs_rtalloc_align_len(alloclen, prod) < minlen THEN NoSpace(0)
        ELSE Found(start, xfs_rtalloc_align_len(alloclen, prod))


(***************************************************************************)
(* struct xfs_rtalloc_args as a search reads it: a.bm and a.sm the bitmap  *)
(* and summary, a.cache the summary cache, a.rbmblocks and a.rsumlevels    *)
(* the mount's sb_rbmblocks and m_rsumlevels, a.rtg_ext the group's        *)
(* rtg_extents, a.junk the stack value an uninitialised local holds.       *)
(***************************************************************************)
Args(bm, sm, cache, rbmblocks, rsumlevels, rtg_ext, junk) ==
    [bm |-> bm, sm |-> sm, cache |-> cache, rbmblocks |-> rbmblocks,
     rsumlevels |-> rsumlevels, rtg_ext |-> rtg_ext, junk |-> junk]

\* the inner loop of the negative side of xfs_rtallocate_extent_near:
\* for (; j >= i; j--) try bitmap block bbno + j
RECURSIVE NearNegProbe(_, _, _, _, _, _, _)
NearNegProbe(a, bbno, minlen, maxavail, prod, j, i) ==
    IF j < i THEN NoSpace(0)
    ELSE Only({
        IF r.err # "ENOSPC" THEN r
        ELSE NearNegProbe(a, bbno, minlen, maxavail, prod, j - 1, i) :
        r \in {xfs_rtallocate_extent_block(a.bm, a.rtg_ext, bbno + j,
                   minlen, maxavail, prod, a.junk)}})

\* a faulty loop control of xfs_rtallocate_extent_near: with the positive
\* side done, the negative side moves two blocks at a time
NearLoopControlSkip(bbno, rbmblocks, i) ==
    IF i > 0 /\ bbno - i >= 0 THEN [more |-> TRUE, i |-> -i]
    ELSE IF i > 0 /\ bbno + i < rbmblocks - 1 THEN [more |-> TRUE, i |-> i + 1]
    ELSE IF i <= 0 /\ bbno - i < rbmblocks - 1 THEN [more |-> TRUE, i |-> 1 - i]
    ELSE IF i <= 0 /\ bbno + i > 1 THEN [more |-> TRUE, i |-> i - 2]
    ELSE [more |-> FALSE, i |-> i]

\* a faulty loop control of xfs_rtallocate_extent_near: the positive side
\* is walked to its end before the negative side is looked at
NearLoopControlPositiveFirst(bbno, rbmblocks, i) ==
    IF i > 0 /\ bbno + i < rbmblocks - 1 THEN [more |-> TRUE, i |-> i + 1]
    ELSE IF i > 0 /\ bbno - i >= 0 THEN [more |-> TRUE, i |-> -i]
    ELSE IF i <= 0 /\ bbno - i < rbmblocks - 1 THEN [more |-> TRUE, i |-> 1 - i]
    ELSE IF i <= 0 /\ bbno + i > 0 THEN [more |-> TRUE, i |-> i - 1]
    ELSE [more |-> FALSE, i |-> i]

\* the loop control of xfs_rtallocate_extent_near: the next bitmap block
\* offset after i, or no offset (more = FALSE) when both sides are done
NearLoopControl(bbno, rbmblocks, i) ==
    IF i > 0 /\ bbno - i >= 0 THEN [more |-> TRUE, i |-> -i]
    ELSE IF i > 0 /\ bbno + i < rbmblocks - 1 THEN [more |-> TRUE, i |-> i + 1]
    ELSE IF i <= 0 /\ bbno - i < rbmblocks - 1 THEN [more |-> TRUE, i |-> 1 - i]
    ELSE IF i <= 0 /\ bbno + i > 0 THEN [more |-> TRUE, i |-> i - 1]
    ELSE [more |-> FALSE, i |-> i]

\* a faulty maxblocks: one block also for runs of a single rtx
NearMaxBlocksOne(maxlog) ==
    IF maxlog < m_blkbit_log THEN 1
    ELSE 2 * (2 ^ (maxlog - m_blkbit_log))

\* maxblocks of xfs_rtallocate_extent_near
NearMaxBlocks(maxlog) ==
    IF maxlog = 0 THEN 0
    ELSE IF maxlog < m_blkbit_log THEN 1
    ELSE 2 * (2 ^ (maxlog - m_blkbit_log))

\* j = min(i + maxblocks, j): the offset the negative side starts probing
\* at, when the summary of block bbno + i reports class maxlog and j is
\* where the last negative step left it
NearNegStart(i, j, maxlog) == Min(i + NearMaxBlocks(maxlog), j)

\* for (; j >= i; j--): the offsets probed, in order
NearNegOrder(j, i) == [k \in 1..(j - i + 1) |-> j - k + 1]

\* the for (;;) loop of xfs_rtallocate_extent_near at offset i; the result
\* is [res, cache]
RECURSIVE NearScan(_, _, _, _, _, _, _, _)
NearScan(a, cache, bbno, minlen, maxlen, prod, i, j) ==
    Only({
        LET maxlog == any.maxlog
            maxavail == Min(maxlen, 2 ^ (maxlog + 1) - 1)
            j2 == IF maxlog >= 0 /\ i < 0
                  THEN NearNegStart(i, j, maxlog) ELSE j
            j3 == IF maxlog >= 0 /\ i < 0 THEN Min(j2, i - 1) ELSE j
            nxt == NearLoopControl(bbno, a.rbmblocks, i)
        IN  Only({
            IF r.err # "ENOSPC" THEN [res |-> r, cache |-> any.cache]
            ELSE IF ~nxt.more THEN [res |-> NoSpace(0), cache |-> any.cache]
            ELSE NearScan(a, any.cache, bbno, minlen, maxlen, prod, nxt.i,
                          j3) :
            r \in {IF maxlog < 0 THEN NoSpace(0)
                   ELSE IF i >= 0
                   THEN xfs_rtallocate_extent_block(a.bm, a.rtg_ext,
                            bbno + i, minlen, maxavail, prod, a.junk)
                   ELSE NearNegProbe(a, bbno, minlen, maxavail, prod, j2,
                            i)}}) :
        any \in {xfs_rtany_summary(a.sm, cache, a.rbmblocks,
                     xfs_highbit(minlen), a.rsumlevels - 1, bbno + i)}})

\* xfs_rtallocate_extent_near: an extent minlen <= len <= maxlen as near
\* to start as possible; the result is [res, cache]
xfs_rtallocate_extent_near(a, start0, minlen, maxlen, prod) ==
    LET start == Min(start0, a.rtg_ext - 1)
    IN  Only({
        IF ex.err # "ENOSPC" THEN [res |-> ex, cache |-> a.cache]
        ELSE NearScan(a, a.cache, xfs_rtx_to_rbmblock(start), minlen, maxlen,
                      prod, 0, -1) :
        ex \in {xfs_rtallocate_extent_exact(a.bm, a.rtg_ext, start, minlen,
                    maxlen, prod)}})

\* xfs_rtalloc_sumlevel: the loop over the bitmap blocks, from block i on
RECURSIVE SumLevelScan(_, _, _, _, _, _)
SumLevelScan(a, l, minlen, maxlen, prod, i) ==
    IF i >= a.rbmblocks THEN NoSpace(0)
    ELSE IF ~SumCellOk(a.rbmblocks, l, i) THEN IoError
    ELSE IF xfs_rtget_summary(a.sm, a.rbmblocks, l, i) = 0
    THEN SumLevelScan(a, l, minlen, maxlen, prod, i + 1)
    ELSE Only({
        LET nb == xfs_rtx_to_rbmblock(r.next)
        IN  IF r.err # "ENOSPC" THEN r
            ELSE SumLevelScan(a, l, minlen, maxlen, prod,
                              IF nb > i + 1 THEN nb ELSE i + 1) :
        r \in {xfs_rtallocate_extent_block(a.bm, a.rtg_ext, i, minlen,
                   maxlen, prod, a.junk)}})

xfs_rtalloc_sumlevel(a, l, minlen, maxlen, prod) ==
    SumLevelScan(a, l, minlen, maxlen, prod, 0)

\* first loop of xfs_rtallocate_extent_size: levels from l up
RECURSIVE SizeLevelsUp(_, _, _, _, _)
SizeLevelsUp(a, l, minlen, maxlen, prod) ==
    IF l >= a.rsumlevels THEN NoSpace(0)
    ELSE Only({
        IF r.err # "ENOSPC" THEN r
        ELSE SizeLevelsUp(a, l + 1, minlen, maxlen, prod) :
        r \in {xfs_rtalloc_sumlevel(a, l, minlen, maxlen, prod)}})

\* second loop of xfs_rtallocate_extent_size: levels from l down to the
\* level of minlen; maxlen is the decremented maxlen
RECURSIVE SizeLevelsDown(_, _, _, _, _)
SizeLevelsDown(a, l, minlen, maxlen, prod) ==
    IF l < xfs_highbit(minlen) THEN NoSpace(0)
    ELSE Only({
        IF r.err # "ENOSPC" THEN r
        ELSE SizeLevelsDown(a, l - 1, minlen, maxlen, prod) :
        r \in {xfs_rtalloc_sumlevel(a, l, Max(minlen, 2 ^ l),
                   Min(maxlen, 2 ^ (l + 1) - 1), prod)}})

\* a faulty xfs_rtallocate_extent_size: the levels below that of maxlen
\* are not searched
xfs_rtallocate_extent_size_up(a, minlen, maxlen, prod) ==
    SizeLevelsUp(a, xfs_highbit(maxlen), minlen, maxlen, prod)

\* xfs_rtallocate_extent_size: an extent minlen <= len <= maxlen anywhere
xfs_rtallocate_extent_size(a, minlen, maxlen, prod) ==
    Only({
        IF up.err # "ENOSPC" THEN up
        ELSE IF minlen > maxlen - 1 THEN NoSpace(0)
        ELSE SizeLevelsDown(a, xfs_highbit(maxlen - 1), minlen, maxlen - 1,
                            prod) :
        up \in {SizeLevelsUp(a, xfs_highbit(maxlen), minlen, maxlen, prod)}})


(***************************************************************************)
(* The top-level allocator.                                                *)
(***************************************************************************)
\* stands for an all-ones 64-bit value (NULLRTBLOCK, and the modulus of
\* unsigned wrap-around), scaled to the integers of the model
U64 == 2 ^ 30
NULLRTBLOCK == U64 - 1
NULLFSBLOCK == U64 - 1

\* xfs_rtb_to_rtx: the rtx holding rt block rtbno
xfs_rtb_to_rtx(rextsize, rtbno) == rtbno \div rextsize

\* a faulty xfs_rtpick_extent: the start is not lowered when the extent
\* would pass the end of the region
xfs_rtpick_extent_unclamped(rextents, at, len) ==
    LET seq == IF at.newrtbm THEN at.sec ELSE 0
        log2 == xfs_highbit(seq)
        resid == seq - 2 ^ log2
        b0 == (rextents * (2 * resid + 1)) \div (2 ^ (log2 + 1))
        b1 == IF b0 >= rextents THEN b0 % rextents ELSE b0
    IN  [b |-> IF log2 # -1 THEN b1 ELSE 0,
         at |-> [newrtbm |-> TRUE, sec |-> seq + 1]]

\* xfs_rtpick_extent: the start for the first allocation of a file, from
\* the sequence number kept in the atime of the bitmap inode.  at is
\* [newrtbm, sec]: the XFS_DIFLAG_NEWRTBM flag and atime.tv_sec.
xfs_rtpick_extent(rextents, at, len) ==
    LET seq == IF at.newrtbm THEN at.sec ELSE 0
        log2 == xfs_highbit(seq)
        resid == seq - 2 ^ log2
        b0 == (rextents * (2 * resid + 1)) \div (2 ^ (log2 + 1))
        b1 == IF b0 >= rextents THEN b0 % rextents ELSE b0
        b2 == IF b1 + len > rextents THEN (rextents - len) % U64 ELSE b1
    IN  [b |-> IF log2 # -1 THEN b2 ELSE 0,
         at |-> [newrtbm |-> TRUE, sec |-> seq + 1]]

\* a faulty xfs_rtalloc_align_minmax: prod is kept when the aligned
\* lengths are given up
xfs_rtalloc_align_minmax_keepprod(raminlen, ramaxlen, prod) ==
    LET newmaxlen == ramaxlen - (ramaxlen % prod)
        newminlen == IF raminlen % prod # 0
                     THEN raminlen + prod - (raminlen % prod) ELSE raminlen
    IN  IF newmaxlen < newminlen
        THEN [minlen |-> raminlen, maxlen |-> ramaxlen, prod |-> prod]
        ELSE [minlen |-> newminlen, maxlen |-> newmaxlen, prod |-> prod]

\* xfs_rtalloc_align_minmax: align minlen and maxlen to prod, or give up
\* on prod
xfs_rtalloc_align_minmax(raminlen, ramaxlen, prod) ==
    LET newmaxlen == ramaxlen - (ramaxlen % prod)
        newminlen == IF raminlen % prod # 0
                     THEN raminlen + prod - (raminlen % prod) ELSE raminlen
    IN  IF newmaxlen < newminlen
        THEN [minlen |-> raminlen, maxlen |-> ramaxlen, prod |-> 1]
        ELSE [minlen |-> newminlen, maxlen |-> newmaxlen, prod |-> prod]

\* faulty searches of xfs_rtallocate: the start is ignored
RtAllocateSearchBySize(a, rextsize, rextents, at, bno_hint, minlen, maxlen, prod, initial_user_data) ==
    [res |-> xfs_rtallocate_extent_size(a, minlen, maxlen, prod),
     cache |-> a.cache, at |-> at]

\* the searches of xfs_rtallocate: near start when there is one, then by
\* size; the result is [res, cache, at], at being the atime record
RtAllocateSearch(a, rextsize, rextents, at, bno_hint, minlen, maxlen, prod, initial_user_data) ==
    LET pick == xfs_rtpick_extent(rextents, at, maxlen)
        picked == bno_hint = 0 /\ initial_user_data
        start == IF bno_hint # 0 THEN xfs_rtb_to_rtx(rextsize, bno_hint)
                 ELSE IF initial_user_data THEN pick.b
                 ELSE 0
        at2 == IF picked THEN pick.at ELSE at
    IN  IF start = 0
        THEN [res |-> xfs_rtallocate_extent_size(a, minlen, maxlen, prod),
              cache |-> a.cache, at |-> at2]
        ELSE Only({
            IF near.res.err # "ENOSPC"
            THEN [res |-> near.res, cache |-> near.cache, at |-> at2]
            ELSE [res |-> xfs_rtallocate_extent_size(
                              [a EXCEPT !.cache = near.cache], minlen,
                              maxlen, prod),
                  cache |-> near.cache, at |-> at2] :
            near \in {xfs_rtallocate_extent_near(a, start, minlen, maxlen,
                          prod)}})


(***************************************************************************)
(* Grow.                                                                   *)
(***************************************************************************)
\* XFS_MIN_RTEXTSIZE and XFS_MAX_RTEXTSIZE, in filesystem blocks
XFS_MIN_RTEXTSIZE == 1
XFS_MAX_RTEXTSIZE == 2
\* mp->m_sb.sb_logblocks: the size of the log, in blocks
sb_logblocks == 6

\* xfs_growfs_rt_alloc_fake_mount: the geometry of a region of rblocks
\* blocks with extents of rextsize blocks, laid over the mount m
xfs_growfs_rt_alloc_fake_mount(m, rblocks, rextsize) ==
    LET rextents == xfs_rtb_to_rtx(rextsize, rblocks)
        rbmblocks == xfs_rtbitmap_blockcount(rextents)
        rextslog == xfs_compute_rextslog(rextents)
    IN  [m EXCEPT !.sb_rextsize = rextsize,
                  !.sb_rblocks = rblocks,
                  !.sb_rextents = rextents,
                  !.sb_rbmblocks = rbmblocks,
                  !.sb_rextslog = rextslog,
                  !.m_rsumlevels = rextslog + 1,
                  !.m_rsumblocks =
                      xfs_rtsummary_blockcount(rextslog + 1, rbmblocks)]

\* xfs_alloc_rsum_cache: a cache of rbmblocks bytes, all at the maximum
xfs_alloc_rsum_cache(rbmblocks) ==
    [ok |-> TRUE, len |-> rbmblocks,
     b |-> [k \in 0..(MaxBmBlocks - 1) |->
               IF k < rbmblocks THEN CacheMax ELSE 0]]

\* rtg->rtg_rsum_cache after a failed kvmalloc
NullCache == [ok |-> FALSE, len |-> 0, b |-> [k \in 0..(MaxBmBlocks - 1) |-> 0]]

\* a faulty order of xfs_rtcopy_summary: log from 0 up, bbno from 0 up
CopyCellAscending(rsumlevels, rbmblocks, k) ==
    [log |-> k \div rbmblocks, bbno |-> k % rbmblocks]

\* the (log, bbno) pair that iteration k of xfs_rtcopy_summary handles:
\* log from rsumlevels - 1 down, bbno from rbmblocks - 1 down
CopyCell(rsumlevels, rbmblocks, k) ==
    [log |-> rsumlevels - 1 - (k \div rbmblocks),
     bbno |-> rbmblocks - 1 - (k % rbmblocks)]

\* iterations k.. of xfs_rtcopy_summary; the read of iteration failat
\* fails and ends the copy
RECURSIVE CopyFrom(_, _, _, _, _, _)
CopyFrom(d, olevels, orbm, nrbm, k, failat) ==
    IF k >= olevels * orbm \/ k = failat \/ d.err THEN d
    ELSE LET c == CopyCell(olevels, orbm, k)
             sum == xfs_rtget_summary(d.sm, orbm, c.log, c.bbno)
             d1 == xfs_rtmodify_summary(d, orbm, c.log, c.bbno, -sum)
             d2 == xfs_rtmodify_summary(d1, nrbm, c.log, c.bbno, sum)
         IN  CopyFrom(IF sum = 0 THEN d ELSE d2, olevels, orbm, nrbm,
                      k + 1, failat)

\* xfs_rtcopy_summary: move every counter from its place in the old
\* geometry to its place in the new one.  It returns 0 whatever happened:
\* the result carries no error.
xfs_rtcopy_summary(d, olevels, orbm, nrbm, failat) ==
    [CopyFrom(d, olevels, orbm, nrbm, 0, failat) EXCEPT !.err = FALSE]

\* xfs_last_rt_bmblock: the bitmap block the grow starts with
xfs_last_rt_bmblock(m) ==
    IF xfs_rtx_to_rbmword(m.sb_rextents) # 0
    THEN m.sb_rbmblocks - 1 ELSE m.sb_rbmblocks

\* faulty checks: the size of the summary is not held against the log
GrowfsRtCheckNoLog(m, growing, capable, newblocks, extsize, devok) ==
    IF ~capable THEN "EPERM"
    ELSE IF growing THEN "EWOULDBLOCK"
    ELSE IF newblocks <= m.sb_rblocks THEN "EINVAL"
    ELSE IF m.sb_rblocks > 0 /\ extsize # m.sb_rextsize THEN "EINVAL"
    ELSE IF extsize > XFS_MAX_RTEXTSIZE \/ extsize < XFS_MIN_RTEXTSIZE
    THEN "EINVAL"
    ELSE IF m.unsupported THEN "EOPNOTSUPP"
    ELSE IF ~devok THEN "EIO"
    ELSE IF newblocks \div extsize = 0 THEN "EINVAL"
    ELSE "ok"

\* faulty checks: m_growlock is not tried
GrowfsRtCheckNoLock(m, growing, capable, newblocks, extsize, devok) ==
    IF ~capable THEN "EPERM"
    ELSE IF newblocks <= m.sb_rblocks THEN "EINVAL"
    ELSE IF m.sb_rblocks > 0 /\ extsize # m.sb_rextsize THEN "EINVAL"
    ELSE IF extsize > XFS_MAX_RTEXTSIZE \/ extsize < XFS_MIN_RTEXTSIZE
    THEN "EINVAL"
    ELSE IF m.unsupported THEN "EOPNOTSUPP"
    ELSE IF ~devok THEN "EIO"
    ELSE IF newblocks \div extsize = 0 THEN "EINVAL"
    ELSE IF xfs_rtsummary_blockcount(
                xfs_compute_rextslog(newblocks \div extsize) + 1,
                xfs_rtbitmap_blockcount(newblocks \div extsize))
            > sb_logblocks \div 2
    THEN "EINVAL"
    ELSE "ok"

\* the checks of xfs_growfs_rt before xfs_growfs_rtg: the error returned,
\* or "ok"
GrowfsRtCheck(m, growing, capable, newblocks, extsize, devok) ==
    IF ~capable THEN "EPERM"
    ELSE IF growing THEN "EWOULDBLOCK"
    ELSE IF newblocks <= m.sb_rblocks THEN "EINVAL"
    ELSE IF m.sb_rblocks > 0 /\ extsize # m.sb_rextsize THEN "EINVAL"
    ELSE IF extsize > XFS_MAX_RTEXTSIZE \/ extsize < XFS_MIN_RTEXTSIZE
    THEN "EINVAL"
    ELSE IF m.unsupported THEN "EOPNOTSUPP"
    ELSE IF ~devok THEN "EIO"
    ELSE IF newblocks \div extsize = 0 THEN "EINVAL"
    ELSE IF xfs_rtsummary_blockcount(
                xfs_compute_rextslog(newblocks \div extsize) + 1,
                xfs_rtbitmap_blockcount(newblocks \div extsize))
            > sb_logblocks \div 2
    THEN "EINVAL"
    ELSE "ok"


(***************************************************************************)
(* The true summary of a bitmap (invariant I3 of the design text): the     *)
(* number of maximal free runs of each class that start in each block.     *)
(***************************************************************************)
\* does a maximal free run of bm start at k, in a region of n rtx
RunStart(bm, n, k) == k < n /\ bm[k] = 1 /\ (k = 0 \/ bm[k - 1] = 0)
\* the length of the free run that starts at k
RunLen(bm, n, k) == FindForw(bm, k, n - 1, 1) + 1 - k
\* the rtx of bitmap block bbno
BlockRtx(bbno) ==
    xfs_rbmblock_to_rtx(bbno)..(xfs_rbmblock_to_rtx(bbno + 1) - 1)
\* the number of free runs of class log that start in block bbno
TrueCount(bm, n, log, bbno) ==
    Cardinality({k \in BlockRtx(bbno) :
                    RunStart(bm, n, k) /\ xfs_highbit(RunLen(bm, n, k)) = log})
\* the summary file that I3 prescribes for bm in the given geometry
TrueSummary(bm, n, rsumlevels, rbmblocks) ==
    [so \in 0..(SumCells - 1) |->
        IF so < rsumlevels * rbmblocks
        THEN TrueCount(bm, n, so \div rbmblocks, so % rbmblocks)
        ELSE 0]
\* the highest class of a free run starting in block bbno, or -1
MaxClass(bm, n, bbno) ==
    LET cl == {xfs_highbit(RunLen(bm, n, k)) :
                  k \in {j \in BlockRtx(bbno) : RunStart(bm, n, j)}}
    IN  IF cl = {} THEN -1 ELSE CHOOSE l \in cl : \A m \in cl : m <= l

(***************************************************************************)
(* State.                                                                  *)
(***************************************************************************)
VARIABLES
    mp,             \* the mount: superblock fields and m_rsumlevels/blocks
    rtg_extents,    \* rtg->rtg_extents
    rtg_rsum_cache, \* rtg->rtg_rsum_cache
    bitmap,         \* the bitmap file
    summary,        \* the summary file
    rbm_atime,      \* the bitmap inode's NEWRTBM flag and atime.tv_sec
    tp,             \* the data-plane transaction holding the bitmap lock
    grow,           \* the xfs_growfs_rt call in progress (holds m_growlock)
    fn              \* the last call of a search function on its own

vars == <<mp, rtg_extents, rtg_rsum_cache, bitmap, summary, rbm_atime, tp,
          grow, fn>>

\* largest atime sequence number the picker is followed to in Spec
MaxSeq == 0

ZeroBitmap == [k \in 0..(MaxBits - 1) |-> 0]
ZeroSummary == [so \in 0..(SumCells - 1) |-> 0]

\* no transaction open
NoTrans ==
    [state |-> "none", rc |-> "ok", rtx |-> 0, len |-> 0, wasdel |-> FALSE,
     bm0 |-> ZeroBitmap, sm0 |-> ZeroSummary]
\* no grow in progress
NoGrow ==
    [state |-> "idle", nrblocks |-> 0, rextsize |-> 0, bmbno |-> 0,
     bmblocks |-> 0, has_old |-> FALSE, old_rsum_cache |-> NullCache]
\* no search function called.  Of a call, fn keeps the arguments (start,
\* bbno, minlen, maxlen, prod), the result res, and the structures as the
\* call leaves them (bm, sm, cache); of an allocate followed by a free, also
\* the structures in between (midbm, midsm); of xfs_bmap_rtalloc, also the
\* original length, whether alignment was off, and the number of calls of
\* xfs_rtallocate (olen, noalign, tries).
NoFn ==
    [op |-> "none", start |-> 0, bbno |-> 0, minlen |-> 0, maxlen |-> 0,
     prod |-> 0, res |-> NoSpace(0), cache |-> NullCache, bm |-> ZeroBitmap,
     sm |-> ZeroSummary, midbm |-> ZeroBitmap, midsm |-> ZeroSummary,
     tries |-> 0, olen |-> 0, noalign |-> FALSE, initial |-> FALSE,
     ev |-> <<>>]

\* a filesystem without a realtime region, mounted; unsupported is
\* whether rmap, reflink or quota is enabled
EmptyMount(unsupported) ==
    [sb_rextsize |-> 1, sb_rblocks |-> 0, sb_rextents |-> 0,
     sb_rbmblocks |-> 0, sb_rextslog |-> 0, sb_frextents |-> 0,
     m_rsumlevels |-> 0, m_rsumblocks |-> 0,
     unsupported |-> unsupported]

Init ==
    /\ \E u \in BOOLEAN : mp = EmptyMount(u)
    /\ rtg_extents = 0
    /\ rtg_rsum_cache = xfs_alloc_rsum_cache(0)
    /\ bitmap = ZeroBitmap
    /\ summary = ZeroSummary
    /\ rbm_atime = [newrtbm |-> FALSE, sec |-> 0]
    /\ tp = NoTrans
    /\ grow = NoGrow
    /\ fn = NoFn


(***************************************************************************)
(* The data plane: xfs_bmap_rtalloc and the transaction around it.         *)
(***************************************************************************)
\* values an uninitialised xfs_rtxnum_t on the stack is followed for
JunkRtx == {0, NULLRTBLOCK}
\* block hints of xfs_bmap_rtalloc: NULLRTBLOCK, or ap->blkno when
\* xfs_bmap_adjacent found a neighbour
BnoHints(rblocks) == {NULLRTBLOCK} \cup (0..(rblocks - 1))

\* xfs_rtallocate: search, then mark the extent allocated.  st is
\* [d, at, io]: the group's structures, the atime record, and whether
\* reading the bitmap and summary files fails.  The result is
\* [rc, rtx, len, d, at].
xfs_rtallocate(m, rtg_ext, st, bno_hint, minlen, maxlen, prod, initial_user_data, junk) ==
    LET a == Args(st.d.bm, st.d.sm, st.d.cache, m.sb_rbmblocks,
                  m.m_rsumlevels, rtg_ext, junk)
    IN  IF st.io
        THEN [rc |-> "EIO", rtx |-> 0, len |-> 0, d |-> st.d, at |-> st.at]
        ELSE Only({
            IF s.res.err # "ok"
            THEN [rc |-> s.res.err, rtx |-> 0, len |-> 0,
                  d |-> [st.d EXCEPT !.cache = s.cache], at |-> s.at]
            ELSE Only({
                IF d1.err
                THEN [rc |-> "EFSCORRUPTED", rtx |-> 0, len |-> 0,
                      d |-> [st.d EXCEPT !.cache = s.cache], at |-> s.at]
                ELSE [rc |-> "ok", rtx |-> s.res.rtx, len |-> s.res.len,
                      d |-> d1, at |-> s.at] :
                d1 \in {xfs_rtallocate_range(
                            [st.d EXCEPT !.cache = s.cache], m.sb_rbmblocks,
                            rtg_ext, s.res.rtx, s.res.len)}}) :
            s \in {RtAllocateSearch(a, m.sb_rextsize, m.sb_rextents, st.at,
                       bno_hint, minlen, maxlen, prod, initial_user_data)}})

\* a faulty head of xfs_rtallocate: the lock is taken whether or not the
\* caller holds it
RtallocateLockAlways(rtlocked) ==
    [rtlocked |-> TRUE, ev |-> <<"lock", "join">>]

\* the head of xfs_rtallocate: unless *rtlocked, xfs_rtgroup_lock and
\* xfs_rtgroup_trans_join of the bitmap lock, and *rtlocked is set.  The
\* result is *rtlocked afterwards and what was done, in order.
RtallocateLock(rtlocked) ==
    IF ~rtlocked THEN [rtlocked |-> TRUE, ev |-> <<"lock", "join">>]
    ELSE [rtlocked |-> rtlocked, ev |-> <<>>]

\* the part of xfs_rtallocate_align that is in this file: a real prod
\* factor aligns minlen and maxlen
xfs_rtallocate_align(ralen, raminlen, prod) ==
    IF prod > 1 THEN xfs_rtalloc_align_minmax(raminlen, ralen, prod)
    ELSE [minlen |-> raminlen, maxlen |-> ralen, prod |-> prod]

\* a faulty xfs_bmap_rtalloc: ENOSPC is retried whether or not alignment
\* was on
xfs_bmap_rtalloc_retry_always(m, rtg_ext, st, bno_hint, ralen, raminlen, prod, noalign, olen, initial_user_data, junk) ==
    LET q1 == xfs_rtallocate_align(ralen, raminlen, prod)
        l1 == RtallocateLock(FALSE)
        l2 == RtallocateLock(l1.rtlocked)
    IN  Only({Only({
            [rc |-> r.rc, rtx |-> r.rtx, len |-> r.len, d |-> r.d,
             at |-> r.at,
             tries |-> IF r1.rc = "ENOSPC" THEN 2 ELSE 1,
             ev |-> l1.ev \o <<"search">>
                        \o IF r1.rc = "ENOSPC"
                           THEN l2.ev \o <<"search">> ELSE <<>>,
             error |-> IF r.rc = "ENOSPC" THEN "ok" ELSE r.rc,
             blkno |-> IF r.rc = "ok" THEN r.rtx * m.sb_rextsize
                       ELSE NULLFSBLOCK,
             length |-> r.len * m.sb_rextsize] :
            r \in {IF r1.rc = "ENOSPC"
                   THEN xfs_rtallocate(m, rtg_ext,
                            [d |-> r1.d, at |-> r1.at, io |-> st.io],
                            bno_hint, 1, olen, 1, initial_user_data, junk)
                   ELSE r1}}) :
            r1 \in {xfs_rtallocate(m, rtg_ext, st, bno_hint, q1.minlen,
                        q1.maxlen, q1.prod, initial_user_data, junk)}})

\* xfs_bmap_rtalloc: align, allocate, and after ENOSPC with alignment
\* retry once without it.  (ralen, raminlen, prod) is the request aligned
\* to the extent size hint, olen the original length; noalign is whether
\* the hint equals the rt extent size.  The result is that of
\* xfs_rtallocate, with tries the number of calls of it, and what the
\* caller gets: the error returned (ENOSPC is not one), ap->blkno and
\* ap->length; ev is the order of the lock steps and searches of the
\* calls, rtlocked being false before the first.
xfs_bmap_rtalloc(m, rtg_ext, st, bno_hint, ralen, raminlen, prod, noalign, olen, initial_user_data, junk) ==
    LET q1 == xfs_rtallocate_align(ralen, raminlen, prod)
        l1 == RtallocateLock(FALSE)
        l2 == RtallocateLock(l1.rtlocked)
    IN  Only({Only({
            [rc |-> r.rc, rtx |-> r.rtx, len |-> r.len, d |-> r.d,
             at |-> r.at,
             tries |-> IF r1.rc = "ENOSPC" /\ ~noalign THEN 2 ELSE 1,
             ev |-> l1.ev \o <<"search">>
                        \o IF r1.rc = "ENOSPC" /\ ~noalign
                           THEN l2.ev \o <<"search">> ELSE <<>>,
             error |-> IF r.rc = "ENOSPC" THEN "ok" ELSE r.rc,
             blkno |-> IF r.rc = "ok" THEN r.rtx * m.sb_rextsize
                       ELSE NULLFSBLOCK,
             length |-> r.len * m.sb_rextsize] :
            r \in {IF r1.rc = "ENOSPC" /\ ~noalign
                   THEN xfs_rtallocate(m, rtg_ext,
                            [d |-> r1.d, at |-> r1.at, io |-> st.io],
                            bno_hint, 1, olen, 1, initial_user_data, junk)
                   ELSE r1}}) :
            r1 \in {xfs_rtallocate(m, rtg_ext, st, bno_hint, q1.minlen,
                        q1.maxlen, q1.prod, initial_user_data, junk)}})

\* a data-plane allocation in a fresh transaction: the transaction takes
\* the bitmap lock and stays open with the result until the caller
\* commits or cancels it.  growstates are the positions of a grow at which
\* the call is followed.
BmapRtallocIn(growstates) ==
    /\ tp.state = "none"
    /\ grow.state \in growstates
    /\ mp.sb_rblocks > 0
    /\ \E bno_hint \in BnoHints(mp.sb_rblocks), ralen \in 1..MaxLen,
          prod \in 1..2, noalign \in BOOLEAN,
          initial_user_data \in BOOLEAN, junk \in JunkRtx :
       \E raminlen \in 1..ralen, olen \in 1..ralen :
          /\ noalign => prod = 1 /\ olen = ralen
          /\ initial_user_data => bno_hint \in {0, NULLRTBLOCK}
          /\ initial_user_data /\ bno_hint = 0 => rbm_atime.sec < MaxSeq
          /\ \E r \in {xfs_bmap_rtalloc(mp, rtg_extents,
                          [d |-> Disk(bitmap, summary, rtg_rsum_cache),
                           at |-> rbm_atime, io |-> FALSE],
                          bno_hint, ralen, raminlen, prod, noalign, olen,
                          initial_user_data, junk)} :
                 /\ r.at.sec <= MaxSeq
                 /\ bitmap' = r.d.bm
                 /\ summary' = r.d.sm
                 /\ rtg_rsum_cache' = r.d.cache
                 /\ rbm_atime' = r.at
                 /\ \E wasdel \in BOOLEAN :
                       tp' = [state |-> "open", rc |-> r.rc, rtx |-> r.rtx,
                              len |-> r.len, wasdel |-> wasdel,
                              bm0 |-> bitmap, sm0 |-> summary]
    /\ UNCHANGED <<mp, rtg_extents, grow, fn>>

\* in Spec a grow is between two transactions or not there at all
BmapRtalloc == BmapRtallocIn({"idle", "steps"})

\* a data-plane allocation whose first read of the bitmap or summary fails
BmapRtallocIoError ==
    /\ tp.state = "none"
    /\ grow.state \in {"idle", "steps"}
    /\ mp.sb_rblocks > 0
    /\ tp' = [NoTrans EXCEPT !.state = "open", !.rc = "EIO",
                             !.bm0 = bitmap, !.sm0 = summary]
    /\ UNCHANGED <<mp, rtg_extents, rtg_rsum_cache, bitmap, summary,
                   rbm_atime, grow, fn>>

\* xfs_trans_commit of the caller: the superblock deltas of the
\* transaction are applied and the bitmap lock is dropped.  The delta of
\* xfs_rtallocate is -len, on XFS_TRANS_SB_RES_FREXTENTS when the extent
\* comes out of a delayed reservation (wasdel) and on
\* XFS_TRANS_SB_FREXTENTS otherwise; the commit adds either to
\* sb_frextents.
TransCommit ==
    /\ tp.state = "open"
    /\ tp.rc \in {"ok", "ENOSPC"}
    /\ mp' = [mp EXCEPT !.sb_frextents = @ - tp.len]
    /\ tp' = NoTrans
    /\ UNCHANGED <<rtg_extents, rtg_rsum_cache, bitmap, summary, rbm_atime,
                   grow, fn>>

\* xfs_trans_cancel of the caller: bitmap, summary and superblock are as
\* before the transaction; the summary cache is not part of it
TransCancel ==
    /\ tp.state = "open"
    /\ bitmap' = tp.bm0
    /\ summary' = tp.sm0
    /\ tp' = NoTrans
    /\ UNCHANGED <<mp, rtg_extents, rtg_rsum_cache, rbm_atime, grow, fn>>

\* xfs_rtfree_extent in a transaction of its own, committed: the extent
\* must be allocated; a failure of the range update cancels
RtFreeExtent ==
    /\ tp.state = "none"
    /\ grow.state \in {"idle", "steps"}
    /\ \E start \in 0..(rtg_extents - 1), len \in 1..MaxLen :
          /\ start + len <= rtg_extents
          /\ xfs_rtcheck_range(bitmap, start, len, 0).stat
          /\ \E d \in {xfs_rtfree_range(
                          Disk(bitmap, summary, rtg_rsum_cache),
                          mp.sb_rbmblocks, rtg_extents, start, len)} :
                 IF d.err
                 THEN UNCHANGED <<mp, bitmap, summary, rtg_rsum_cache>>
                 ELSE /\ bitmap' = d.bm
                      /\ summary' = d.sm
                      /\ rtg_rsum_cache' = d.cache
                      /\ mp' = [mp EXCEPT !.sb_frextents = @ + len]
    /\ UNCHANGED <<rtg_extents, rbm_atime, tp, grow, fn>>


(***************************************************************************)
(* The control plane: xfs_growfs_rt, one action per transaction.           *)
(***************************************************************************)
\* values a byte of heap memory past the end of an allocation is followed
\* for
HeapBytes == {0, CacheMax}

\* the summary caches that reading old_rsum_cache as an array of rbmblocks
\* bytes can show: the bytes at and past its length are not its own
RestoredCache(old, rbmblocks) ==
    {[old EXCEPT !.b = [k \in 0..(MaxBmBlocks - 1) |->
                           IF old.len <= k /\ k < rbmblocks THEN g[k]
                           ELSE old.b[k]]] :
        g \in [0..(MaxBmBlocks - 1) -> HeapBytes]}

\* a faulty freed_rtx: the old size is not taken off
freed_rtx_all(m, nmp) == nmp.sb_rextents

\* a faulty freed_rtx: one rtx too many
freed_rtx_more(m, nmp) == nmp.sb_rextents - m.sb_rextents + 1

\* freed_rtx of xfs_growfs_rt_bmblock: the rtx the step adds to the region
freed_rtx(m, nmp) == nmp.sb_rextents - m.sb_rextents

\* xfs_growfs_rt_bmblock: one grow transaction, for bitmap block bmbno,
\* on the mount m and the structures d.  fail is the step that fails, if
\* any; failat the iteration of xfs_rtcopy_summary whose read fails, or -1.
\* The result is [rc, mp, rtg_extents, d, cut]: what is committed and in
\* core when the function returns; cut is whether a summary copy that was
\* cut short has been committed.
xfs_growfs_rt_bmblock(m, rtg_ext, d, nrblocks, rextsize, bmbno, fail, failat) ==
    LET nrblocks_step == (bmbno + 1) * BitsPerBlock * rextsize
    IN  Only({
        LET copies == m.sb_rbmblocks # nmp.sb_rbmblocks
                      \/ m.m_rsumlevels # nmp.m_rsumlevels
            freed == freed_rtx(m, nmp)
        IN  IF fail = "nomem"
            THEN [rc |-> "ENOMEM", mp |-> m, rtg_extents |-> rtg_ext,
                  d |-> d, cut |-> FALSE]
            ELSE IF fail = "transalloc"
            THEN [rc |-> "ENOSPC", mp |-> m,
                  rtg_extents |-> nmp.sb_rextents, d |-> d, cut |-> FALSE]
            ELSE Only({
                \* xfs_trans_cancel leaves d but for the summary cache,
                \* which keeps its writes
                IF fail = "free" \/ d2.err
                THEN [rc |-> "EIO", mp |-> m,
                      rtg_extents |-> nmp.sb_rextents,
                      d |-> [d EXCEPT !.cache = d2.cache], cut |-> FALSE]
                ELSE IF fail = "commit"
                THEN [rc |-> "EIO",
                      mp |-> [m EXCEPT !.m_rsumlevels = nmp.m_rsumlevels,
                                       !.m_rsumblocks = nmp.m_rsumblocks],
                      rtg_extents |-> nmp.sb_rextents,
                      d |-> [d EXCEPT !.cache = d2.cache], cut |-> FALSE]
                ELSE [rc |-> "ok",
                      mp |-> [nmp EXCEPT !.sb_frextents = @ + freed],
                      rtg_extents |-> nmp.sb_rextents, d |-> d2,
                      cut |-> copies /\ failat >= 0] :
                d2 \in {xfs_rtfree_range(
                            IF copies
                            THEN xfs_rtcopy_summary(d, m.m_rsumlevels,
                                     m.sb_rbmblocks, nmp.sb_rbmblocks,
                                     failat)
                            ELSE d,
                            nmp.sb_rbmblocks, nmp.sb_rextents,
                            m.sb_rextents, freed)}}) :
        nmp \in {xfs_growfs_rt_alloc_fake_mount(m,
                     Min(nrblocks, nrblocks_step), rextsize)}})

\* the steps of xfs_growfs_rt_bmblock that can fail
StepFails == {"none", "nomem", "transalloc", "free", "commit"}

\* what a caller of xfs_growfs_rt sees when the call returns: the request
\* (fn.start the new size in blocks, fn.prod the extent size) and the
\* error returned (fn.res.err).  The calls of Spec are not watched.
GrowReturn(observe, newblocks, extsize, rc) ==
    IF observe
    THEN [NoFn EXCEPT !.op = "grow", !.start = newblocks, !.prod = extsize,
                      !.res = [NoSpace(0) EXCEPT !.err = rc]]
    ELSE fn

\* one turn of the loop of xfs_growfs_rtg for the grow g, and what follows
\* it: the next turn is left for the next transaction; after the last turn
\* the old summary cache is freed and m_growlock dropped; after a failed
\* turn (out_error) the group's extent count is reset from the superblock,
\* the old summary cache is put back and m_growlock dropped.  A failed
\* commit shuts the filesystem down, and a committed half-copied summary
\* is followed no further: nothing runs after either.
GrowfsRtgTurn(g, cache, fail, failat, observe) ==
    \E r \in {xfs_growfs_rt_bmblock(mp, rtg_extents,
                 Disk(bitmap, summary, cache), g.nrblocks, g.rextsize,
                 g.bmbno, fail, failat)} :
        /\ mp' = r.mp
        /\ bitmap' = r.d.bm
        /\ summary' = r.d.sm
        /\ IF r.rc = "ok"
           THEN /\ rtg_extents' = r.rtg_extents
                /\ rtg_rsum_cache' = r.d.cache
                /\ grow' = IF r.cut THEN [NoGrow EXCEPT !.state = "cut"]
                           ELSE IF g.bmbno + 1 < g.bmblocks
                           THEN [g EXCEPT !.state = "steps", !.bmbno = @ + 1]
                           ELSE NoGrow
                /\ fn' = IF ~r.cut /\ g.bmbno + 1 < g.bmblocks
                         THEN IF observe THEN NoFn ELSE fn
                         ELSE GrowReturn(observe, g.nrblocks, g.rextsize,
                                  "ok")
           ELSE /\ rtg_extents' = r.mp.sb_rextents
                /\ rtg_rsum_cache' \in
                       IF g.has_old
                       THEN RestoredCache(g.old_rsum_cache,
                                          r.mp.sb_rbmblocks)
                       ELSE {r.d.cache}
                /\ grow' = IF fail = "commit"
                           THEN [NoGrow EXCEPT !.state = "shutdown"]
                           ELSE NoGrow
                /\ fn' = GrowReturn(observe, g.nrblocks, g.rextsize, r.rc)

\* xfs_growfs_rt up to the end of the first transaction of xfs_growfs_rtg,
\* for a new size of up to maxblocks blocks.  A rejected call and a call
\* that fails to allocate file blocks change nothing.  fail is what fails,
\* if anything: the capability check, the read of the last device block,
\* the allocation of file blocks, the allocation of the summary cache, or
\* a step of the first transaction.
GrowfsRtCall(observe, maxblocks) ==
    /\ tp.state = "none"
    /\ grow.state \in {"idle", "steps"}
    /\ \E newblocks \in 0..maxblocks, extsize \in 0..(XFS_MAX_RTEXTSIZE + 1),
          fail \in {"capable", "device", "blocks", "cache"} \cup StepFails :
          LET rc == GrowfsRtCheck(mp, grow.state # "idle",
                        fail # "capable", newblocks, extsize,
                        fail # "device")
              bmblocks == xfs_rtbitmap_blockcount(newblocks \div extsize)
              realloc == bmblocks # mp.sb_rbmblocks
              cache == IF realloc THEN xfs_alloc_rsum_cache(bmblocks)
                       ELSE rtg_rsum_cache
              g == [state |-> "idle", nrblocks |-> newblocks,
                    rextsize |-> extsize, bmbno |-> xfs_last_rt_bmblock(mp),
                    bmblocks |-> bmblocks,
                    has_old |-> realloc /\ rtg_rsum_cache.ok,
                    old_rsum_cache |-> IF realloc /\ rtg_rsum_cache.ok
                                       THEN rtg_rsum_cache ELSE NullCache]
          IN  IF rc # "ok" \/ fail = "blocks"
              THEN /\ fn' = GrowReturn(observe, newblocks, extsize,
                                IF rc # "ok" THEN rc ELSE "ENOSPC")
                   /\ UNCHANGED <<mp, rtg_extents, rtg_rsum_cache, bitmap,
                                  summary, grow>>
              ELSE IF fail = "cache"
              THEN /\ realloc
                   /\ rtg_rsum_cache' = NullCache
                   /\ fn' = GrowReturn(observe, newblocks, extsize, "ENOMEM")
                   /\ UNCHANGED <<mp, rtg_extents, bitmap, summary, grow>>
              ELSE IF g.bmbno >= g.bmblocks
              THEN /\ fail = "none"
                   /\ rtg_rsum_cache' = cache
                   /\ fn' = GrowReturn(observe, newblocks, extsize, "ok")
                   /\ UNCHANGED <<mp, rtg_extents, bitmap, summary, grow>>
              ELSE \E failat \in
                       -1..(mp.m_rsumlevels * mp.sb_rbmblocks - 1) :
                       GrowfsRtgTurn(g, cache, fail, failat, observe)
    /\ UNCHANGED <<rbm_atime, tp>>

\* the next transaction of a grow in progress: xfs_growfs_rt_bmblock for
\* bitmap block grow.bmbno, under the bitmap lock
GrowfsRtStep(observe) ==
    /\ grow.state = "steps"
    /\ tp.state = "none"
    /\ \E fail \in StepFails,
          failat \in -1..(mp.m_rsumlevels * mp.sb_rbmblocks - 1) :
          GrowfsRtgTurn(grow, rtg_rsum_cache, fail, failat, observe)
    /\ UNCHANGED <<rbm_atime, tp>>

GrowfsRt == GrowfsRtCall(FALSE, MaxRblocks)

GrowfsRtBmblock == GrowfsRtStep(FALSE)

\* unmount and mount again: xfs_rtmount_init and xfs_rtmount_rtg
Remount ==
    /\ tp.state = "none"
    /\ grow.state = "idle"
    /\ mp' = IF mp.sb_rblocks = 0
             THEN [mp EXCEPT !.m_rsumlevels = 0, !.m_rsumblocks = 0]
             ELSE [mp EXCEPT
                      !.m_rsumlevels = mp.sb_rextslog + 1,
                      !.m_rsumblocks = xfs_rtsummary_blockcount(
                          mp.sb_rextslog + 1, mp.sb_rbmblocks)]
    /\ rtg_extents' = mp.sb_rextents
    /\ rtg_rsum_cache' = xfs_alloc_rsum_cache(mp.sb_rbmblocks)
    /\ UNCHANGED <<bitmap, summary, rbm_atime, tp, grow, fn>>

Next ==
    \/ BmapRtalloc
    \/ BmapRtallocIoError
    \/ TransCommit
    \/ TransCancel
    \/ RtFreeExtent
    \/ GrowfsRt
    \/ GrowfsRtBmblock
    \/ Remount

Spec == Init /\ [][Next]_vars

(***************************************************************************)
(* The search functions called on their own, on any region whose summary   *)
(* is the true summary of its bitmap and whose summary cache is either     *)
(* fresh or as tight as it can be.                                         *)
(***************************************************************************)
\* largest atime sequence number the picker starts from
MaxFnSeq == 1

\* the bitmaps of a region of n rtx
Bitmaps(n) ==
    {[k \in 0..(MaxBits - 1) |-> IF k < n THEN f[k] ELSE 0] :
        f \in [0..(n - 1) -> {0, 1}]}
\* the number of free rtx of the region
FreeCount(bm, n) == Cardinality({k \in 0..(n - 1) : bm[k] = 1})
\* the mount of a region of n rtx, of one block each, with the bitmap bm
FnMount(bm, n) ==
    [xfs_growfs_rt_alloc_fake_mount(EmptyMount(FALSE), n, 1)
        EXCEPT !.sb_frextents = FreeCount(bm, n)]
\* the tightest summary cache: one above the highest class that has a run
TightCache(bm, n, rbmblocks) ==
    [ok |-> TRUE, len |-> rbmblocks,
     b |-> [k \in 0..(MaxBmBlocks - 1) |->
               IF k < rbmblocks THEN MaxClass(bm, n, k) + 1 ELSE 0]]
\* the atime records of the bitmap inode
Atimes ==
    {[newrtbm |-> FALSE, sec |-> 0]}
        \cup {[newrtbm |-> TRUE, sec |-> q] : q \in 0..MaxFnSeq}

\* a mounted region of at most maxrtx rtx
InitOn(maxrtx, atimes) ==
    \E n \in 1..maxrtx : \E bm \in Bitmaps(n) :
        /\ mp = FnMount(bm, n)
        /\ rtg_extents = n
        /\ bitmap = bm
        /\ summary = TrueSummary(bm, n, mp.m_rsumlevels, mp.sb_rbmblocks)
        /\ rtg_rsum_cache \in {xfs_alloc_rsum_cache(mp.sb_rbmblocks),
                               TightCache(bm, n, mp.sb_rbmblocks)}
        /\ rbm_atime \in atimes
        /\ tp = NoTrans
        /\ grow = NoGrow
        /\ fn = NoFn

InitFn == InitOn(MaxFnRtx, Atimes)

\* the arguments of the searches of the mount
FnArgs(junk) ==
    Args(bitmap, summary, rtg_rsum_cache, mp.sb_rbmblocks, mp.m_rsumlevels,
         rtg_extents, junk)
\* fn after a search that changes nothing but the summary cache
FnSearched(op, start, bbno, minlen, maxlen, prod, res, cache) ==
    [NoFn EXCEPT !.op = op, !.start = start, !.bbno = bbno,
                 !.minlen = minlen, !.maxlen = maxlen, !.prod = prod,
                 !.res = res, !.cache = cache, !.bm = bitmap,
                 !.sm = summary]

\* a call of xfs_rtallocate_extent_exact
FnExact ==
    /\ fn.op = "none"
    /\ \E start \in 0..(rtg_extents - 1), maxlen \in 1..MaxFnLen,
          prod \in 1..2 :
       \E minlen \in 1..maxlen :
          fn' = FnSearched("exact", start, 0, minlen, maxlen, prod,
                    xfs_rtallocate_extent_exact(bitmap, rtg_extents, start,
                        minlen, maxlen, prod),
                    rtg_rsum_cache)
    /\ UNCHANGED <<mp, rtg_extents, rtg_rsum_cache, bitmap, summary,
                   rbm_atime, tp, grow>>

\* a call of xfs_rtallocate_extent_block
FnBlock ==
    /\ fn.op = "none"
    /\ \E bbno \in 0..(mp.sb_rbmblocks - 1), maxlen \in 1..MaxFnLen,
          prod \in 1..2, junk \in JunkRtx :
       \E minlen \in 1..maxlen :
          fn' = FnSearched("block", 0, bbno, minlen, maxlen, prod,
                    xfs_rtallocate_extent_block(bitmap, rtg_extents, bbno,
                        minlen, maxlen, prod, junk),
                    rtg_rsum_cache)
    /\ UNCHANGED <<mp, rtg_extents, rtg_rsum_cache, bitmap, summary,
                   rbm_atime, tp, grow>>

\* a call of xfs_rtallocate_extent_near with lengths up to maxl
NearCall(maxl) ==
    /\ fn.op = "none"
    /\ \E start \in 0..rtg_extents, maxlen \in 1..maxl, prod \in 1..2,
          junk \in JunkRtx :
       \E minlen \in 1..maxlen :
          \E r \in {xfs_rtallocate_extent_near(FnArgs(junk), start,
                      minlen, maxlen, prod)} :
              /\ fn' = FnSearched("near", start, 0, minlen, maxlen, prod,
                           r.res, r.cache)
              /\ rtg_rsum_cache' = r.cache
    /\ UNCHANGED <<mp, rtg_extents, bitmap, summary, rbm_atime, tp, grow>>

FnNear == NearCall(MaxFnLen)

\* a call of xfs_rtallocate_extent_size with lengths up to maxl and
\* product factors prods
SizeCall(maxl, prods) ==
    /\ fn.op = "none"
    /\ \E maxlen \in 1..maxl, prod \in prods, junk \in JunkRtx :
       \E minlen \in 1..maxlen :
          fn' = FnSearched("size", 0, 0, minlen, maxlen, prod,
                    xfs_rtallocate_extent_size(FnArgs(junk), minlen, maxlen,
                        prod),
                    rtg_rsum_cache)
    /\ UNCHANGED <<mp, rtg_extents, rtg_rsum_cache, bitmap, summary,
                   rbm_atime, tp, grow>>

FnSize == SizeCall(MaxFnLen, 1..2)

\* a call of xfs_rtallocate with lengths up to maxl and product factors
\* prods; fn.start is the block hint
AllocateCall(maxl, prods) ==
    /\ fn.op = "none"
    /\ \E bno_hint \in BnoHints(mp.sb_rblocks), maxlen \in 1..maxl,
          prod \in prods, initial_user_data \in BOOLEAN, junk \in JunkRtx :
       \E minlen \in 1..maxlen :
          \E r \in {xfs_rtallocate(mp, rtg_extents,
                      [d |-> Disk(bitmap, summary, rtg_rsum_cache),
                       at |-> rbm_atime, io |-> FALSE],
                      bno_hint, minlen, maxlen, prod, initial_user_data,
                      junk)} :
              /\ fn' = [FnSearched("allocate", bno_hint, 0, minlen, maxlen,
                            prod,
                            [err |-> r.rc, rtx |-> r.rtx, len |-> r.len,
                             next |-> 0],
                            r.d.cache)
                           EXCEPT !.bm = r.d.bm, !.sm = r.d.sm]
              /\ rtg_rsum_cache' = r.d.cache
              /\ rbm_atime' = r.at
    /\ UNCHANGED <<mp, rtg_extents, bitmap, summary, tp, grow>>

FnAllocate == AllocateCall(MaxFnLen, 1..2)

\* xfs_rtallocate_range of a free range, then xfs_rtfree_range of the same
\* range; fn.maxlen is the length
FnRoundTrip ==
    /\ fn.op = "none"
    /\ \E start \in 0..(rtg_extents - 1), len \in 1..MaxFnLen :
          /\ start + len <= rtg_extents
          /\ xfs_rtcheck_range(bitmap, start, len, 1).stat
          /\ \E d1 \in {xfs_rtallocate_range(
                           Disk(bitmap, summary, rtg_rsum_cache),
                           mp.sb_rbmblocks, rtg_extents, start, len)} :
              \E d2 \in {xfs_rtfree_range(d1, mp.sb_rbmblocks, rtg_extents,
                           start, len)} :
                 /\ fn' = [FnSearched("roundtrip", start, 0, len, len, 1,
                               IF d1.err \/ d2.err THEN IoError
                               ELSE Found(start, len),
                               d2.cache)
                              EXCEPT !.bm = d2.bm, !.sm = d2.sm,
                                     !.midbm = d1.bm, !.midsm = d1.sm]
                 /\ rtg_rsum_cache' = d2.cache
    /\ UNCHANGED <<mp, rtg_extents, bitmap, summary, rbm_atime, tp, grow>>

NextFn ==
    \/ FnExact
    \/ FnBlock
    \/ FnNear
    \/ FnSize
    \/ FnAllocate
    \/ FnRoundTrip

SpecFn == InitFn /\ [][NextFn]_vars

\* xfs_bmap_rtalloc on regions of up to MaxBmapRtx rtx, for up to
\* MaxBmapLen rtx
InitBmap == InitOn(MaxBmapRtx, {[newrtbm |-> FALSE, sec |-> 0]})

\* a call of xfs_bmap_rtalloc; fn.start is the block hint (NULLRTBLOCK
\* when xfs_bmap_adjacent found no neighbour), fn.initial the
\* XFS_ALLOC_INITIAL_USER_DATA bit, fn.res what the caller gets: the error,
\* ap->blkno and ap->length, fn.ev what the calls of xfs_rtallocate did
\* with the bitmap lock and when they searched
FnBmapRtalloc ==
    /\ fn.op = "none"
    /\ \E bno_hint \in BnoHints(mp.sb_rblocks), ralen \in 1..MaxBmapLen,
          prod \in 1..2, noalign \in BOOLEAN,
          initial_user_data \in BOOLEAN, junk \in JunkRtx, io \in BOOLEAN :
       \E raminlen \in 1..ralen, olen \in 1..ralen :
          /\ noalign => prod = 1 /\ olen = ralen
          /\ initial_user_data => bno_hint \in {0, NULLRTBLOCK}
          /\ \E r \in {xfs_bmap_rtalloc(mp, rtg_extents,
                          [d |-> Disk(bitmap, summary, rtg_rsum_cache),
                           at |-> rbm_atime, io |-> io],
                          bno_hint, ralen, raminlen, prod, noalign, olen,
                          initial_user_data, junk)} :
                 /\ fn' = [FnSearched("bmap", bno_hint, 0, raminlen, ralen,
                               prod,
                               [err |-> r.error, rtx |-> r.blkno,
                                len |-> r.length, next |-> 0],
                               r.d.cache)
                              EXCEPT !.bm = r.d.bm, !.sm = r.d.sm,
                                     !.tries = r.tries, !.olen = olen,
                                     !.noalign = noalign,
                                     !.initial = initial_user_data,
                                     !.ev = r.ev]
                 /\ rtg_rsum_cache' = r.d.cache
                 /\ rbm_atime' = r.at
    /\ UNCHANGED <<mp, rtg_extents, bitmap, summary, tp, grow>>

NextBmap == FnBmapRtalloc

SpecBmap == InitBmap /\ [][NextBmap]_vars

\* the near search on regions of up to three bitmap blocks
InitNear == InitOn(MaxNearRtx, {[newrtbm |-> FALSE, sec |-> 0]})

NearHint == NearCall(MaxNearLen)

NextNear == NearHint

SpecNear == InitNear /\ [][NextNear]_vars

\* the search by size without alignment on regions of up to MaxSizeRtx
\* rtx, three bitmap blocks, for up to MaxSizeLen rtx, and xfs_rtallocate
\* without alignment on those of up to MaxAllocRtx rtx
MaxSizeRtx == 11
MaxSizeLen == 7
MaxAllocRtx == 6

InitSize == InitOn(MaxSizeRtx, {[newrtbm |-> FALSE, sec |-> 0]})

SizeFirst == SizeCall(MaxSizeLen, {1})

AllocateUnaligned ==
    /\ rtg_extents <= MaxAllocRtx
    /\ AllocateCall(MaxSizeLen, {1})

NextSize ==
    \/ SizeFirst
    \/ AllocateUnaligned

SpecSize == InitSize /\ [][NextSize]_vars

(***************************************************************************)
(* Grow on its own, watched: the calls of xfs_growfs_rt on an empty region *)
(* or a mounted region of up to MaxGrowRtx rtx, to up to MaxGrowRblocks    *)
(* blocks, with what each call returns kept in fn.                         *)
(***************************************************************************)
InitGrow == Init \/ InitOn(MaxGrowRtx, {[newrtbm |-> FALSE, sec |-> 0]})

GrowfsRtWatched == GrowfsRtCall(TRUE, MaxGrowRblocks)

GrowfsRtBmblockWatched == GrowfsRtStep(TRUE)

NextGrow ==
    \/ GrowfsRtWatched
    \/ GrowfsRtBmblockWatched
    \/ Remount

SpecGrow == InitGrow /\ [][NextGrow]_vars

(***************************************************************************)
(* The loop control of xfs_rtallocate_extent_near on its own: the bitmap   *)
(* blocks whose summary the for (;;) loop consults when no block yields an *)
(* extent, for any number of bitmap blocks up to MaxOrderBlocks.           *)
(***************************************************************************)
\* largest number of bitmap blocks the loop control is followed over
MaxOrderBlocks == 16

\* the bitmap blocks bbno + i that the loop consults from offset i on, in
\* order; at most fuel of them
RECURSIVE NearOrder(_, _, _, _)
NearOrder(bbno, rbmblocks, i, fuel) ==
    IF fuel = 0 THEN <<>>
    ELSE \* the value is bound once
         Only({<<bbno + i>> \o (IF nxt.more
                                THEN NearOrder(bbno, rbmblocks, nxt.i,
                                               fuel - 1)
                                ELSE <<>>) :
               nxt \in {NearLoopControl(bbno, rbmblocks, i)}})

InitOrder == InitOn(1, {[newrtbm |-> FALSE, sec |-> 0]})

\* fn.start is the number of bitmap blocks, fn.bbno the block of the
\* start, fn.midsm the sequence of blocks consulted
FnNearOrder ==
    /\ \E rbmblocks \in 1..MaxOrderBlocks :
          \E bbno \in 0..(rbmblocks - 1) :
             fn' = [NoFn EXCEPT !.op = "order", !.start = rbmblocks,
                                !.bbno = bbno,
                                !.midsm = NearOrder(bbno, rbmblocks, 0,
                                              2 * rbmblocks + 2)]
    /\ UNCHANGED <<mp, rtg_extents, rtg_rsum_cache, bitmap, summary,
                   rbm_atime, tp, grow>>

\* largest offset and class the negative side is followed for
MaxNegOffset == 6
MaxNegLog == 4

\* one step of the negative side: fn.start is the offset i, fn.bbno the j
\* left by the steps before, fn.minlen the class maxlog reported for block
\* bbno + i, fn.midsm the offsets probed, in order
FnNearNegative ==
    /\ \E i \in (-MaxNegOffset)..(-1), maxlog \in 0..MaxNegLog :
          \E j \in i..(-1) :
             fn' = [NoFn EXCEPT !.op = "negative", !.start = i, !.bbno = j,
                                !.minlen = maxlog,
                                !.midsm = NearNegOrder(
                                              NearNegStart(i, j, maxlog),
                                              i)]
    /\ UNCHANGED <<mp, rtg_extents, rtg_rsum_cache, bitmap, summary,
                   rbm_atime, tp, grow>>

NextOrder ==
    \/ FnNearOrder
    \/ FnNearNegative

SpecOrder == InitOrder /\ [][NextOrder]_vars

(***************************************************************************)
(* xfs_rtcopy_summary called on its own: on the summary of any region of   *)
(* up to MaxCopyRtx rtx, towards a geometry with as many or more bitmap    *)
(* blocks.                                                                 *)
(***************************************************************************)
\* largest region whose summary is copied, in rtx
MaxCopyRtx == 8

InitCopy == InitOn(MaxCopyRtx, {[newrtbm |-> FALSE, sec |-> 0]})

\* fn.bbno is the number of bitmap blocks of the new geometry, fn.midsm the
\* summary file before the call, fn.sm the summary file after it
FnCopySummary ==
    /\ \E nrbm \in mp.sb_rbmblocks..MaxBmBlocks :
          \E d \in {xfs_rtcopy_summary(
                       Disk(bitmap, summary, rtg_rsum_cache),
                       mp.m_rsumlevels, mp.sb_rbmblocks, nrbm, -1)} :
             fn' = [NoFn EXCEPT !.op = "copy", !.bbno = nrbm,
                                !.midsm = summary, !.sm = d.sm,
                                !.cache = d.cache]
    /\ UNCHANGED <<mp, rtg_extents, rtg_rsum_cache, bitmap, summary,
                   rbm_atime, tp, grow>>

NextCopy == FnCopySummary

SpecCopy == InitCopy /\ [][NextCopy]_vars

(***************************************************************************)
(* xfs_rtany_summary called on its own: on the summary of any region of    *)
(* up to MaxAnyRtx rtx, for any range of classes and any cached bound of   *)
(* the block.                                                              *)
(***************************************************************************)
MaxAnyRtx == 6

InitAny == InitOn(MaxAnyRtx, {[newrtbm |-> FALSE, sec |-> 0]})

\* the cached bounds xfs_rtany_summary is called with
Hints == (0..(MaxLevels + 1)) \cup {CacheMax}

\* a call of xfs_rtany_summary: fn.minlen is low, fn.maxlen high, fn.bbno
\* the block, fn.start the cached bound of the block before the call,
\* fn.cache the summary cache after it, fn.res.rtx the class returned
FnAnySummary ==
    /\ \E low \in 0..(mp.m_rsumlevels - 1), high \in 0..(mp.m_rsumlevels - 1),
          bbno \in 0..(mp.sb_rbmblocks - 1), hint \in Hints :
          \E r \in {xfs_rtany_summary(summary,
                       [rtg_rsum_cache EXCEPT !.b[bbno] = hint],
                       mp.sb_rbmblocks, low, high, bbno)} :
             fn' = [NoFn EXCEPT !.op = "any", !.minlen = low,
                                !.maxlen = high, !.bbno = bbno,
                                !.start = hint, !.cache = r.cache,
                                !.res = [NoSpace(0) EXCEPT !.rtx = r.maxlog]]
    /\ UNCHANGED <<mp, rtg_extents, rtg_rsum_cache, bitmap, summary,
                   rbm_atime, tp, grow>>

NextAny == FnAnySummary

SpecAny == InitAny /\ [][NextAny]_vars

(***************************************************************************)
(* xfs_rtpick_extent called on its own, again and again, on a region of up *)
(* to MaxPickRtx rtx, from a bitmap inode whose sequence number is not yet *)
(* initialised (whatever its atime holds) or is 0.                         *)
(***************************************************************************)
MaxPickRtx == 9
MaxPickSeq == 17

\* the atime records the calls start from
PickAtimes ==
    {[newrtbm |-> FALSE, sec |-> q] : q \in {0, 5}}
        \cup {[newrtbm |-> TRUE, sec |-> 0]}

InitPick ==
    /\ InitOn(MaxPickRtx, PickAtimes)
    /\ \A k \in 0..(rtg_extents - 1) : bitmap[k] = 1
    /\ rtg_rsum_cache.b[0] = CacheMax

\* a call of xfs_rtpick_extent: fn.prod is 1 when XFS_DIFLAG_NEWRTBM was
\* set before the call, fn.start the atime second before the call,
\* fn.maxlen the length, fn.res.rtx the rtx returned
FnPickExtent ==
    /\ rbm_atime.sec < MaxPickSeq
    /\ \E len \in 1..mp.sb_rextents :
          \E p \in {xfs_rtpick_extent(mp.sb_rextents, rbm_atime, len)} :
             /\ rbm_atime' = p.at
             /\ fn' = [NoFn EXCEPT !.op = "pick",
                                   !.prod = IF rbm_atime.newrtbm THEN 1 ELSE 0,
                                   !.start = rbm_atime.sec, !.maxlen = len,
                                   !.res = Found(p.b, len)]
    /\ UNCHANGED <<mp, rtg_extents, rtg_rsum_cache, bitmap, summary, tp,
                   grow>>

NextPick == FnPickExtent

SpecPick == InitPick /\ [][NextPick]_vars

(***************************************************************************)
(* The alignment of a request at the end of xfs_rtallocate_align, called   *)
(* on its own for requests of up to MaxAlignLen rtx and product factors up *)
(* to MaxAlignProd.                                                        *)
(***************************************************************************)
MaxAlignLen == 9
MaxAlignProd == 5

InitAlign == InitOn(1, {[newrtbm |-> FALSE, sec |-> 0]})

\* fn.minlen, fn.maxlen and fn.prod are raminlen, ralen and prod before the
\* alignment, fn.start, fn.olen and fn.tries are raminlen, ralen and prod
\* after it
FnAlign ==
    /\ \E ralen \in 1..MaxAlignLen, prod \in 1..MaxAlignProd :
          \E raminlen \in 1..ralen :
             \E q \in {xfs_rtallocate_align(ralen, raminlen, prod)} :
                fn' = [NoFn EXCEPT !.op = "align", !.minlen = raminlen,
                                   !.maxlen = ralen, !.prod = prod,
                                   !.start = q.minlen, !.olen = q.maxlen,
                                   !.tries = q.prod]
    /\ UNCHANGED <<mp, rtg_extents, rtg_rsum_cache, bitmap, summary,
                   rbm_atime, tp, grow>>

NextAlign == FnAlign

SpecAlign == InitAlign /\ [][NextAlign]_vars

(***************************************************************************)
(* xfs_growfs_rtg statement by statement, next to an allocating            *)
(* transaction.  The bitmap lock (XFS_RTGLOCK_BITMAP) is held by the open  *)
(* transaction tp, or by a grow transaction for the length of one action;  *)
(* the statements of the grow outside its transactions take no lock and    *)
(* run whether tp is open or not.  grow.state is the position of the       *)
(* grow: "turn" before a call of xfs_growfs_rt_bmblock, "trans" before its *)
(* xfs_trans_alloc, "error" (or "error_shutdown" after a failed commit) at *)
(* out_error.                                                              *)
(***************************************************************************)
\* largest region SpecLock starts on, in rtx, and grows to, in blocks
MaxLockRtx == 2
MaxLockRblocks == 5

InitLock == InitOn(MaxLockRtx, {[newrtbm |-> FALSE, sec |-> 0]})

\* every position of a grow
GrowStates ==
    {"idle", "steps", "turn", "trans", "error", "error_shutdown",
     "shutdown", "cut"}

\* an allocating transaction, wherever the grow is
BmapRtallocAnytime == BmapRtallocIn(GrowStates)

\* xfs_growfs_rt up to the loop of xfs_growfs_rtg: the checks pass, the
\* file blocks are there, and the summary cache is replaced when the number
\* of bitmap blocks changes
GrowfsRtgStart ==
    /\ grow.state = "idle"
    /\ \E newblocks \in 1..MaxLockRblocks, extsize \in 1..XFS_MAX_RTEXTSIZE :
          /\ GrowfsRtCheck(mp, FALSE, TRUE, newblocks, extsize, TRUE) = "ok"
          /\ \E bmblocks \in
                    {xfs_rtbitmap_blockcount(newblocks \div extsize)} :
                /\ rtg_rsum_cache' =
                       IF bmblocks # mp.sb_rbmblocks
                       THEN xfs_alloc_rsum_cache(bmblocks)
                       ELSE rtg_rsum_cache
                /\ grow' =
                       IF xfs_last_rt_bmblock(mp) >= bmblocks THEN NoGrow
                       ELSE [state |-> "turn", nrblocks |-> newblocks,
                             rextsize |-> extsize,
                             bmbno |-> xfs_last_rt_bmblock(mp),
                             bmblocks |-> bmblocks,
                             has_old |-> bmblocks # mp.sb_rbmblocks
                                         /\ rtg_rsum_cache.ok,
                             old_rsum_cache |->
                                 IF bmblocks # mp.sb_rbmblocks
                                    /\ rtg_rsum_cache.ok
                                 THEN rtg_rsum_cache ELSE NullCache]
    /\ UNCHANGED <<mp, rtg_extents, bitmap, summary, rbm_atime, tp, fn>>

\* xfs_growfs_rt_bmblock before its transaction: the trial geometry is
\* computed and rtg_extents set from it
GrowfsRtBmblockHead ==
    /\ grow.state = "turn"
    /\ \E fail \in {"none", "nomem"} :
          \E r \in {xfs_growfs_rt_bmblock(mp, rtg_extents,
                       Disk(bitmap, summary, rtg_rsum_cache), grow.nrblocks,
                       grow.rextsize, grow.bmbno,
                       IF fail = "none" THEN "transalloc" ELSE fail, -1)} :
             /\ rtg_extents' = r.rtg_extents
             /\ grow' = [grow EXCEPT !.state = IF fail = "none" THEN "trans"
                                               ELSE "error"]
    /\ UNCHANGED <<mp, rtg_rsum_cache, bitmap, summary, rbm_atime, tp, fn>>

\* the transaction of xfs_growfs_rt_bmblock, from xfs_trans_alloc to
\* xfs_trans_commit, under the bitmap lock
GrowfsRtBmblockTrans ==
    /\ grow.state = "trans"
    /\ tp.state = "none"
    /\ \E fail \in StepFails \ {"nomem"},
          failat \in -1..(mp.m_rsumlevels * mp.sb_rbmblocks - 1) :
          \E r \in {xfs_growfs_rt_bmblock(mp, rtg_extents,
                       Disk(bitmap, summary, rtg_rsum_cache), grow.nrblocks,
                       grow.rextsize, grow.bmbno, fail, failat)} :
             /\ mp' = r.mp
             /\ rtg_extents' = r.rtg_extents
             /\ bitmap' = r.d.bm
             /\ summary' = r.d.sm
             /\ rtg_rsum_cache' = r.d.cache
             /\ grow' = IF r.rc # "ok"
                        THEN [grow EXCEPT !.state =
                                 IF fail = "commit" THEN "error_shutdown"
                                 ELSE "error"]
                        ELSE IF r.cut THEN [NoGrow EXCEPT !.state = "cut"]
                        ELSE IF grow.bmbno + 1 < grow.bmblocks
                        THEN [grow EXCEPT !.state = "turn", !.bmbno = @ + 1]
                        ELSE NoGrow
    /\ UNCHANGED <<rbm_atime, tp, fn>>

\* out_error of xfs_growfs_rtg: rtg_extents is reset from the superblock,
\* the new summary cache freed and the old one put back
GrowfsRtgOutError ==
    /\ grow.state \in {"error", "error_shutdown"}
    /\ rtg_extents' = mp.sb_rextents
    /\ rtg_rsum_cache' \in
           IF grow.has_old
           THEN RestoredCache(grow.old_rsum_cache, mp.sb_rbmblocks)
           ELSE {rtg_rsum_cache}
    /\ grow' = IF grow.state = "error_shutdown"
               THEN [NoGrow EXCEPT !.state = "shutdown"]
               ELSE NoGrow
    /\ UNCHANGED <<mp, bitmap, summary, rbm_atime, tp, fn>>

NextLock ==
    \/ BmapRtallocAnytime
    \/ TransCommit
    \/ TransCancel
    \/ GrowfsRtgStart
    \/ GrowfsRtBmblockHead
    \/ GrowfsRtBmblockTrans
    \/ GrowfsRtgOutError

SpecLock == InitLock /\ [][NextLock]_vars

(***************************************************************************)
(* Properties.                                                             *)
(***************************************************************************)
\* the summary cache is an upper bound for bm: above every class at which
\* a free run starts in a bitmap block.  A run belongs to the block that
\* holds its first rtx, as in the summary.
HintValid(cache, bm, n, rbmblocks) ==
    cache.ok =>
        \A b \in 0..(rbmblocks - 1) : cache.b[b] > MaxClass(bm, n, b)

\* C1: the extent a successful allocation returns lies inside
\* [0, rextents), every rtx of it was free before the call and is
\* allocated after it.
AllocatedExtentWasFree ==
    (tp.state = "open" /\ tp.rc = "ok") =>
        /\ tp.len >= 1
        /\ tp.rtx + tp.len <= mp.sb_rextents
        /\ \A k \in tp.rtx..(tp.rtx + tp.len - 1) :
              tp.bm0[k] = 1 /\ bitmap[k] = 0

\* an allocation of two rtx across the boundary of bitmap blocks 0 and 1
AllocatedExtentWitness ==
    /\ tp.state = "open" /\ tp.rc = "ok"
    /\ tp.rtx = BitsPerBlock - 1 /\ tp.len = 2

\* C2: at every commit boundary the number of free bits of the region
\* equals sb_frextents.
FreeCounterMatchesBitmap ==
    tp.state = "none" => FreeCount(bitmap, mp.sb_rextents) = mp.sb_frextents

\* after grow steps and a committed allocation: a region of two bitmap
\* blocks with some but not all rtx free
FreeCounterWitness ==
    /\ tp.state = "none" /\ grow.state = "idle"
    /\ mp.sb_rbmblocks = 2
    /\ mp.sb_frextents > 0 /\ mp.sb_frextents < mp.sb_rextents

\* C3: at every commit boundary the summary is the true summary of the
\* bitmap: cell (L,B) counts the maximal free runs of class L that start
\* in block B.
SummaryIsTrue ==
    tp.state = "none" =>
        summary = TrueSummary(bitmap, mp.sb_rextents, mp.m_rsumlevels,
                      mp.sb_rbmblocks)

\* C3 with the grows that committed a summary copy cut short left out
SummaryIsTrueUnlessCut ==
    (tp.state = "none" /\ grow.state # "cut") =>
        summary = TrueSummary(bitmap, mp.sb_rextents, mp.m_rsumlevels,
                      mp.sb_rbmblocks)

\* C4: at every commit boundary the summary cache of each bitmap block is
\* above every class at which a free run starts in the block.
HintIsUpperBound ==
    tp.state = "none" =>
        HintValid(rtg_rsum_cache, bitmap, mp.sb_rextents, mp.sb_rbmblocks)

\* C5: an allocation that starts with a valid summary cache leaves a cache
\* that is valid for the bitmap before the transaction, and a transaction
\* with an allocation that ends without its change of sb_frextents (a
\* cancel) puts back that bitmap, the summary and the superblock and
\* leaves the cache as it is.
CancelKeepsHintValid ==
    [][/\ (/\ tp.state = "none" /\ tp'.state = "open"
           /\ HintValid(rtg_rsum_cache, bitmap, mp.sb_rextents,
                  mp.sb_rbmblocks)) =>
              HintValid(rtg_rsum_cache', bitmap, mp.sb_rextents,
                  mp.sb_rbmblocks)
       /\ (/\ tp.state = "open" /\ tp'.state = "none"
           /\ tp.len > 0 /\ mp'.sb_frextents = mp.sb_frextents) =>
              /\ bitmap' = tp.bm0 /\ summary' = tp.sm0 /\ mp' = mp
              /\ rtg_rsum_cache' = rtg_rsum_cache]_vars

\* a transaction that can be cancelled: it allocated an extent and its
\* search tightened the summary cache of bitmap block 0
CancelWitness ==
    /\ tp.state = "open" /\ tp.rc = "ok" /\ tp.len >= 1
    /\ rtg_rsum_cache.ok /\ rtg_rsum_cache.len >= 1
    /\ rtg_rsum_cache.b[0] < CacheMax
    /\ tp.bm0 # bitmap

\* C6: the bits of the bitmap at and past rextents are 0 in every state.
TailBitsZero ==
    \A k \in mp.sb_rextents..(MaxBits - 1) : bitmap[k] = 0

\* a region that ends inside bitmap block 1, grown to there and used
TailBitsWitness ==
    /\ mp.sb_rextents = BitsPerBlock + 1
    /\ bitmap[BitsPerBlock] = 1 /\ bitmap[BitsPerBlock - 1] = 0

\* C7: allocating a free range and then freeing it puts back every bitmap
\* bit and every summary cell; in between the range is allocated and the
\* summary is the true summary of the bitmap.
AllocateFreeRoundTrip ==
    fn.op = "roundtrip" =>
        /\ fn.res.err = "ok"
        /\ fn.bm = bitmap /\ fn.sm = summary
        /\ \A k \in fn.start..(fn.start + fn.maxlen - 1) : fn.midbm[k] = 0
        /\ fn.midsm = TrueSummary(fn.midbm, rtg_extents, mp.m_rsumlevels,
                          mp.sb_rbmblocks)

\* a round trip that splits a free run in two: free rtx on both sides
RoundTripWitness ==
    /\ fn.op = "roundtrip" /\ fn.start >= 1
    /\ fn.start + fn.maxlen < rtg_extents
    /\ bitmap[fn.start - 1] = 1 /\ bitmap[fn.start + fn.maxlen] = 1

\* C8: with minlen and maxlen multiples of prod, the length a search
\* returns is between minlen and maxlen and a multiple of prod.
LengthWithinRequest ==
    (/\ fn.op \in {"exact", "block", "near", "size", "allocate"}
     /\ fn.res.err = "ok"
     /\ fn.minlen % fn.prod = 0 /\ fn.maxlen % fn.prod = 0) =>
        /\ fn.minlen <= fn.res.len /\ fn.res.len <= fn.maxlen
        /\ fn.res.len % fn.prod = 0

\* a search by size for 2 to 4 rtx in pairs that had to settle for 2
LengthWitness ==
    /\ fn.op = "size" /\ fn.res.err = "ok"
    /\ fn.prod = 2 /\ fn.minlen = 2 /\ fn.maxlen = 4 /\ fn.res.len = 2

\* the number of free rtx from start up to the first allocated one
FreeFrom(bm, n, start) ==
    LET stops == {k \in start..n : k = n \/ bm[k] = 0}
    IN  (CHOOSE k \in stops : \A j \in stops : k <= j) - start

\* C9: the exact search never moves the start; with c the clamped and
\* rounded maxlen and f the free rtx from start, it returns NOSPACE when
\* c < minlen, (start, c) when c rtx are free, and otherwise f rounded down
\* to prod when that is at least minlen, else NOSPACE.
ExactAllocateResult ==
    fn.op = "exact" =>
        LET c == RoundDown(Min(fn.maxlen, rtg_extents - fn.start), fn.prod)
            f == FreeFrom(bitmap, rtg_extents, fn.start)
            fl == RoundDown(f, fn.prod)
            want == IF c < fn.minlen THEN NoSpace(0)
                    ELSE IF f >= c THEN Found(fn.start, c)
                    ELSE IF fl >= fn.minlen THEN Found(fn.start, fl)
                    ELSE NoSpace(0)
        IN  /\ fn.res.err = want.err
            /\ fn.res.rtx = want.rtx /\ fn.res.len = want.len
            /\ fn.bm = bitmap /\ fn.sm = summary

\* an exact search that met an allocated rtx and returned the three free
\* rtx before it rounded down to a pair
ExactWitness ==
    /\ fn.op = "exact" /\ fn.res.err = "ok"
    /\ fn.prod = 2 /\ fn.maxlen = 4 /\ fn.res.len = 2
    /\ FreeFrom(bitmap, rtg_extents, fn.start) = 3

\* the distance in bitmap blocks of block b from the block of the start h
\* of a near search, clamped to the region
BlockDistance(b, h) ==
    LET b0 == xfs_rtx_to_rbmblock(Min(h, rtg_extents - 1))
    IN  IF b >= b0 THEN b - b0 ELSE b0 - b

MarkedAllocated(bm, start, len) ==
    [k \in 0..(MaxBits - 1) |->
        IF start <= k /\ k < start + len THEN 0 ELSE bm[k]]

GeometryIs(rblocks, rextsize) ==
    /\ mp.sb_rblocks = rblocks
    /\ mp.sb_rextsize = rextsize
    /\ mp.sb_rextents = rblocks \div rextsize
    /\ mp.sb_rbmblocks = xfs_rtbitmap_blockcount(rblocks \div rextsize)
    /\ mp.sb_rextslog = xfs_compute_rextslog(rblocks \div rextsize)
    /\ mp.m_rsumlevels = mp.sb_rextslog + 1
    /\ rtg_extents = mp.sb_rextents

\* C13: whenever xfs_growfs_rt(new_rblocks, rextsize) has returned success,
\* whatever the geometry it started from, the live geometry has
\* rblocks = new_rblocks, rextents = new_rblocks / rextsize, and rbmblocks,
\* rextslog and rsumlevels derived from it.
GrowReachesTarget ==
    (fn.op = "grow" /\ fn.res.err = "ok") => GeometryIs(fn.start, fn.prod)

\* the request is one that the first three checks of xfs_growfs_rt refuse:
\* no growth, another extent size on a region that has one, or an extent
\* size out of range
RefusedEarly(newblocks, extsize) ==
    \/ newblocks <= mp.sb_rblocks
    \/ mp.sb_rblocks > 0 /\ extsize # mp.sb_rextsize
    \/ extsize < XFS_MIN_RTEXTSIZE
    \/ extsize > XFS_MAX_RTEXTSIZE
\* the request is one that the last two checks refuse: no extent at all, or
\* a summary file larger than half the log
RefusedLate(newblocks, extsize) ==
    \/ newblocks \div extsize = 0
    \/ xfs_rtsummary_blockcount(
           xfs_highbit(newblocks \div extsize) + 1,
           HowMany(newblocks \div extsize, BitsPerBlock))
       > sb_logblocks \div 2

GrowlockExcludes ==
    [][/\ grow.state = "steps" =>
            \/ /\ fn'.op = "grow"
               /\ fn'.res.err \in {"EPERM", "EWOULDBLOCK"}
               /\ UNCHANGED <<mp, rtg_extents, rtg_rsum_cache, bitmap,
                              summary, rbm_atime, tp, grow>>
            \/ /\ grow'.state = "steps"
               /\ grow'.nrblocks = grow.nrblocks
               /\ grow'.rextsize = grow.rextsize
               /\ grow'.bmbno = grow.bmbno + 1
               /\ fn'.op = "none"
            \/ /\ grow'.state # "steps"
               /\ fn'.op = "grow"
               /\ fn'.start = grow.nrblocks
               /\ fn'.prod = grow.rextsize
               /\ fn'.res.err \notin {"EPERM", "EWOULDBLOCK"}
       /\ (fn' # fn /\ fn'.op = "grow" /\ fn'.res.err = "EWOULDBLOCK")
              => grow.state = "steps"
       /\ (fn' # fn /\ fn'.op = "grow"
                /\ fn'.res.err \notin {"EPERM", "EWOULDBLOCK"})
              => grow'.state # "steps"]_vars

\* a call found m_growlock held by a grow that has transactions left to
\* run, and returned EWOULDBLOCK
GrowlockWitness ==
    /\ fn.op = "grow"
    /\ fn.res.err = "EWOULDBLOCK"
    /\ grow.state = "steps"
    /\ grow.nrblocks > mp.sb_rblocks

\* the geometry the claim of C16 lists is the same before and after the step
SameGeometry ==
    /\ mp'.sb_rblocks = mp.sb_rblocks
    /\ mp'.sb_rextents = mp.sb_rextents
    /\ mp'.sb_rbmblocks = mp.sb_rbmblocks
    /\ mp'.sb_rextslog = mp.sb_rextslog
    /\ mp'.m_rsumlevels = mp.m_rsumlevels
    /\ mp'.m_rsumblocks = mp.m_rsumblocks
    /\ rtg_extents' = mp.sb_rextents

\* C16: when a transaction of a grow fails (xfs_trans_alloc, the summary
\* copy, xfs_rtfree_range or xfs_trans_commit) and xfs_growfs_rt returns the
\* error, the live geometry (sb_rblocks, sb_rextents, sb_rbmblocks,
\* sb_rextslog, m_rsumlevels, m_rsumblocks, rtg_extents) is the one the last
\* successful transaction committed: the one before the failed step.
StepFailureKeepsGeometry ==
    [][(fn' # fn /\ fn'.op = "grow"
            /\ fn'.res.err \in {"ENOMEM", "ENOSPC", "EIO"})
           => SameGeometry]_vars

\* the same, for every failure but that of xfs_trans_commit, which
\* leaves the filesystem shut down; bitmap and summary stay as committed
\* and m_growlock is free for the next call
StepFailureKeepsGeometryUnlessCommit ==
    [][(fn' # fn /\ fn'.op = "grow"
            /\ fn'.res.err \in {"ENOMEM", "ENOSPC", "EIO"}
            /\ grow'.state # "shutdown")
           => /\ SameGeometry
              /\ bitmap' = bitmap
              /\ summary' = summary
              /\ mp'.sb_frextents = mp.sb_frextents
              /\ grow' = NoGrow]_vars

\* C17: the bitmap, the summary, rtg_extents and the summary cache of the
\* group change only under the group's bitmap lock: while an allocating
\* transaction holds the lock, from the call of xfs_bmap_rtalloc to its
\* commit or cancel, no step of anyone else changes any of them.
MutationUnderBitmapLock ==
    [][(tp.state = "open" /\ tp'.state = "open")
           => UNCHANGED <<bitmap, summary, rtg_extents,
                          rtg_rsum_cache>>]_vars

\* C18: xfs_rtcopy_summary from the old geometry (mp.m_rsumlevels levels of
\* mp.sb_rbmblocks blocks) to a new one of fn.bbno >= mp.sb_rbmblocks
\* blocks, over the same summary file, leaves in every cell (log, bbno) of
\* the new geometry the value the old geometry had in (log, bbno) when
\* log and bbno are inside the old geometry, and zero in every other cell:
\* no counter is added to one that has not been moved yet.
CopySummaryMovesCells ==
    fn.op = "copy" =>
        \A log \in 0..(MaxLevels - 1), bbno \in 0..(fn.bbno - 1) :
            fn.sm[log * fn.bbno + bbno] =
                IF log < mp.m_rsumlevels /\ bbno < mp.sb_rbmblocks
                THEN fn.midsm[log * mp.sb_rbmblocks + bbno]
                ELSE 0

\* a summary with counters in two blocks of the same level above 0 was
\* copied to a geometry with more bitmap blocks: the counter of the first
\* lands where that of the second was
CopySummaryWitness ==
    /\ fn.op = "copy"
    /\ fn.bbno > mp.sb_rbmblocks
    /\ \E log \in 1..(mp.m_rsumlevels - 1) :
          /\ fn.midsm[log * mp.sb_rbmblocks] > 0
          /\ fn.midsm[log * fn.bbno] > 0
          /\ fn.sm[log * fn.bbno] = fn.midsm[log * mp.sb_rbmblocks]

\* C19: a read or update that fails part-way through xfs_rtcopy_summary is
\* reported to xfs_growfs_rt_bmblock, which cancels its transaction: no
\* grow step commits a summary whose copy was cut short.
HalfCopiedSummaryNotCommitted == grow.state # "cut"

\* the free pieces of bitmap block bbno of a region of n rtx that a scan
\* for minlen..maxlen meets: they begin at the first rtx of the block or
\* after an allocated rtx, where the request clamped to the region and
\* rounded down to prod is still at least minlen
WantLen(n, i, maxlen, prod) == RoundDown(Min(maxlen, n - i), prod)
PieceStarts(bm, n, bbno, minlen, maxlen, prod) ==
    {i \in (bbno * BitsPerBlock)..(Min(n, (bbno + 1) * BitsPerBlock) - 1) :
        /\ bm[i] = 1
        /\ i = bbno * BitsPerBlock \/ bm[i - 1] = 0
        /\ WantLen(n, i, maxlen, prod) >= minlen}
\* the longest of the pieces, the leftmost among equally long ones
LongestPiece(bm, n, pieces) ==
    CHOOSE i \in pieces :
        \A j \in pieces :
            \/ FreeFrom(bm, n, j) < FreeFrom(bm, n, i)
            \/ FreeFrom(bm, n, j) = FreeFrom(bm, n, i) /\ i <= j

\* C20: xfs_rtallocate_extent_block(bbno, minlen, maxlen, prod) returns the
\* leftmost piece start i of block bbno at which the requested length
\* (maxlen clamped to the end of the region and rounded down to prod) is
\* free, with that length; if there is none and minlen < maxlen, the
\* longest piece of at least minlen rtx (the leftmost among equals) with
\* its length rounded down to prod, if that is still at least minlen;
\* otherwise ENOSPC; bitmap and summary are as before.
BlockAllocateResult ==
    fn.op = "block" =>
        \E starts \in {PieceStarts(bitmap, rtg_extents, fn.bbno, fn.minlen,
                                   fn.maxlen, fn.prod)} :
        \E full \in {{i \in starts :
                        FreeFrom(bitmap, rtg_extents, i)
                            >= WantLen(rtg_extents, i, fn.maxlen, fn.prod)}},
           pieces \in {{i \in starts :
                          FreeFrom(bitmap, rtg_extents, i) >= fn.minlen}} :
            /\ fn.bm = bitmap
            /\ fn.sm = summary
            /\ IF full # {}
               THEN \E i \in full :
                       /\ \A j \in full : i <= j
                       /\ fn.res.err = "ok"
                       /\ fn.res.rtx = i
                       /\ fn.res.len =
                              WantLen(rtg_extents, i, fn.maxlen, fn.prod)
               ELSE IF /\ fn.minlen < fn.maxlen
                       /\ pieces # {}
                       /\ RoundDown(FreeFrom(bitmap, rtg_extents,
                              LongestPiece(bitmap, rtg_extents, pieces)),
                              fn.prod) >= fn.minlen
               THEN /\ fn.res.err = "ok"
                    /\ fn.res.rtx =
                           LongestPiece(bitmap, rtg_extents, pieces)
                    /\ fn.res.len =
                           RoundDown(FreeFrom(bitmap, rtg_extents,
                                         fn.res.rtx), fn.prod)
               ELSE fn.res.err = "ENOSPC"

\* a block search passed over a shorter piece and returned a later, longer
\* one, cut down to a multiple of prod
BlockWitness ==
    /\ fn.op = "block"
    /\ fn.res.err = "ok"
    /\ fn.prod = 2
    /\ fn.res.len < FreeFrom(bitmap, rtg_extents, fn.res.rtx)
    /\ fn.res.len < fn.maxlen
    /\ \E j \in (fn.bbno * BitsPerBlock)..(fn.res.rtx - 1) :
          bitmap[j] = 1

\* C21: whenever xfs_rtallocate_extent_block returns ENOSPC, the next it
\* hands back is an rtx it has scanned up to: at or after the first rtx of
\* the block and at most the end of the region, also when the scan stopped
\* before its first xfs_rtcheck_range.
BlockNextAssigned ==
    (fn.op = "block" /\ fn.res.err = "ENOSPC")
        => fn.res.next \in (fn.bbno * BitsPerBlock)..rtg_extents

\* the same for the calls whose scan makes at least one xfs_rtcheck_range:
\* the request, clamped and rounded at the first rtx of the block, is at
\* least minlen
BlockNextAfterProbe ==
    (/\ fn.op = "block"
     /\ fn.res.err = "ENOSPC"
     /\ fn.bbno * BitsPerBlock < rtg_extents
     /\ WantLen(rtg_extents, fn.bbno * BitsPerBlock, fn.maxlen, fn.prod)
            >= fn.minlen)
        => fn.res.next \in (fn.bbno * BitsPerBlock)..rtg_extents

\* the k-th offset of the sequence 0, +1, -1, +2, -2, ...
NearOffset(k) ==
    IF k % 2 = 1 THEN (k + 1) \div 2 ELSE -(k \div 2)
\* the blocks at these offsets from bbno that lie in [0, rbmblocks)
RECURSIVE NearBlocksFrom(_, _, _)
NearBlocksFrom(bbno, rbmblocks, k) ==
    IF k > 2 * rbmblocks THEN <<>>
    ELSE (IF bbno + NearOffset(k) \in 0..(rbmblocks - 1)
          THEN <<bbno + NearOffset(k)>> ELSE <<>>)
         \o NearBlocksFrom(bbno, rbmblocks, k + 1)

\* C22: after a failed exact attempt the scan of xfs_rtallocate_extent_near
\* from the bitmap block bbno of the start consults the blocks at offsets
\* 0, +1, -1, +2, -2, ... that lie in [0, rbmblocks), in that order, each
\* block of [0, rbmblocks) once, and then ends.
NearScanOrder ==
    fn.op = "order" =>
        /\ fn.midsm = NearBlocksFrom(fn.bbno, fn.start, 0)
        /\ Len(fn.midsm) = fn.start
        /\ {fn.midsm[k] : k \in 1..Len(fn.midsm)} = 0..(fn.start - 1)

\* a scan from block 1 of 6: the negative side ends after block 0 and the
\* positive side goes on alone
NearScanOrderWitness ==
    /\ fn.op = "order"
    /\ fn.start = 6
    /\ fn.bbno = 1
    /\ fn.midsm = <<1, 2, 0, 3, 4, 5>>

\* the offsets from hi down to lo
Descending(hi, lo) == [k \in 1..(hi - lo + 1) |-> hi - k + 1]

\* C23 as stated: on the negative side, with class maxlog reported for
\* block bbno + i, the blocks probed are those at offsets i - 1 down to
\* i - maxblocks + 1, with maxblocks = 2^max(0, maxlog - m_blkbit_log + 1).
NegativeProbesBelow ==
    fn.op = "negative" =>
        fn.midsm =
            Descending(fn.start - 1,
                fn.start - 2 ^ Max(0, fn.minlen - m_blkbit_log + 1) + 1)

\* C23 amended: the blocks probed are those at offsets min(i + maxblocks,
\* j) down to i, where j is one below the lowest offset an earlier
\* negative step probed (-1 at first), and maxblocks is 0 for class 0 and
\* 2^max(0, maxlog - m_blkbit_log + 1) above it; so no offset above j,
\* probed before, is probed again.
NegativeProbesTowardStart ==
    fn.op = "negative" =>
        /\ fn.midsm =
               Descending(
                   Min(fn.start
                           + (IF fn.minlen = 0 THEN 0
                              ELSE 2 ^ Max(0, fn.minlen - m_blkbit_log + 1)),
                       fn.bbno),
                   fn.start)
        /\ \A k \in 1..Len(fn.midsm) : fn.midsm[k] \in fn.start..fn.bbno

\* a step at offset -4 for a class-3 run (4 blocks at most), with the
\* offsets above -2 probed before: blocks -2, -3 and -4 are probed
NegativeProbesWitness ==
    /\ fn.op = "negative"
    /\ fn.start = -4
    /\ fn.bbno = -2
    /\ fn.minlen = 3
    /\ fn.midsm = <<-2, -3, -4>>

\* the classes of low..high, below the cached bound, that have a free run
\* starting in block bbno
ClassesWithRuns(sm, rbmblocks, low, high, hint, bbno) ==
    {l \in low..Min(high, hint - 1) : sm[l * rbmblocks + bbno] # 0}

\* C24: xfs_rtany_summary(low, high, bbno) returns the highest class L with
\* low <= L <= min(high, hint[bbno] - 1) whose cell (L, bbno) is nonzero,
\* or -1 when there is none; hint[bbno] is never raised; it is lowered to
\* L + 1 (to low when nothing was found) when the range was not empty and
\* that is below the value it had, and is otherwise left; no other entry
\* of the hint array changes.
AnySummaryResult ==
    fn.op = "any" =>
        \E hits \in {ClassesWithRuns(summary, mp.sb_rbmblocks, fn.minlen,
                                     fn.maxlen, fn.start, fn.bbno)} :
        \E found \in {IF hits = {} THEN -1
                      ELSE CHOOSE l \in hits : \A k \in hits : k <= l} :
        \E bound \in {IF found = -1 THEN fn.minlen ELSE found + 1} :
            /\ fn.res.rtx = found
            /\ fn.cache.b[fn.bbno] <= fn.start
            /\ fn.cache.b[fn.bbno] =
                   IF fn.minlen <= Min(fn.maxlen, fn.start - 1)
                      /\ bound < fn.start
                   THEN bound ELSE fn.start
            /\ \A b \in 0..(MaxBmBlocks - 1) :
                   b # fn.bbno => fn.cache.b[b] = rtg_rsum_cache.b[b]

\* a call that found class 1 under a bound of 3, passing over a lower
\* class, and lowered the bound to 2
AnySummaryWitness ==
    /\ fn.op = "any"
    /\ fn.res.rtx = 1
    /\ fn.minlen = 0
    /\ fn.start = 3
    /\ summary[fn.bbno] # 0
    /\ fn.cache.b[fn.bbno] = 2

\* the sequence number a call of xfs_rtpick_extent started from
PickSeq == IF fn.prod = 1 THEN fn.start ELSE 0

\* the fraction of rextents that sequence number seq stands for, as an rtx:
\* (2R+1) / 2^(L+1) with L = floor(log2 seq) and R = seq - 2^L
PickFraction(rextents, seq) ==
    CHOOSE b \in 0..rextents :
        \E L \in 0..MaxPickSeq :
            /\ 2 ^ L <= seq
            /\ seq < 2 ^ (L + 1)
            /\ b = ((rextents * (2 * (seq - 2 ^ L) + 1)) \div 2 ^ (L + 1))
                       % rextents

\* C25: xfs_rtpick_extent returns 0 when the sequence number is 0 or not
\* yet initialised; for seq >= 1 it returns the fraction (2R+1)/2^(L+1) of
\* rextents, lowered to rextents - len when the extent would pass the end,
\* so that on 8 rtx the calls give 0, 4, 2, 6, 1 (0, 1/2, 1/4, 3/4, 1/8);
\* every call leaves the sequence number one higher and initialised, and
\* for 0 < len <= rextents the result b has 0 <= b and b + len <= rextents.
PickExtentResult ==
    fn.op = "pick" =>
        /\ PickSeq = 0 => fn.res.rtx = 0
        /\ PickSeq >= 1 =>
              \E f \in {PickFraction(mp.sb_rextents, PickSeq)} :
                  fn.res.rtx = IF f + fn.maxlen > mp.sb_rextents
                               THEN mp.sb_rextents - fn.maxlen ELSE f
        /\ (mp.sb_rextents = 8 /\ fn.maxlen = 1 /\ PickSeq <= 4) =>
              fn.res.rtx = <<0, 4, 2, 6, 1>>[PickSeq + 1]
        /\ rbm_atime = [newrtbm |-> TRUE, sec |-> PickSeq + 1]
        /\ fn.res.rtx >= 0
        /\ fn.res.rtx + fn.maxlen <= mp.sb_rextents

\* the call with sequence number 3 on 8 rtx for 3 rtx: 3/4 of the region
\* is rtx 6, lowered to 5
PickExtentWitness ==
    /\ fn.op = "pick"
    /\ PickSeq = 3
    /\ mp.sb_rextents = 8
    /\ fn.maxlen = 3
    /\ fn.res.rtx = 5

\* C26: a data-plane allocation with no adjacent block and
\* XFS_ALLOC_INITIAL_USER_DATA set consults xfs_rtpick_extent, which
\* leaves the sequence number of the bitmap inode initialised and advanced.
PickerConsulted ==
    (fn.op = "bmap" /\ fn.start = NULLRTBLOCK /\ fn.initial
        /\ fn.res.err = "ok") => rbm_atime.newrtbm

\* the multiples of prod from 0 to one past len
MultiplesOf(prod, len) == {m \in 0..(len + prod) : m % prod = 0}
\* len rounded down and rounded up to a multiple of prod
RoundedDown(prod, len) ==
    CHOOSE m \in MultiplesOf(prod, len) : m <= len /\ len - m < prod
RoundedUp(prod, len) ==
    CHOOSE m \in MultiplesOf(prod, len) : m >= len /\ m - len < prod

\* C27: with prod > 1 the alignment rounds maxlen down and minlen up to
\* multiples of prod; when the rounded maxlen is below the rounded minlen,
\* prod becomes 1 and minlen and maxlen are kept; otherwise both are
\* replaced by the rounded values and prod is kept.  Afterwards
\* minlen <= maxlen and both are multiples of the resulting prod.
AlignMinmaxResult ==
    (fn.op = "align" /\ fn.prod > 1) =>
        \E down \in {RoundedDown(fn.prod, fn.maxlen)} :
        \E up \in {RoundedUp(fn.prod, fn.minlen)} :
            /\ down < up =>
                  /\ fn.tries = 1
                  /\ fn.start = fn.minlen
                  /\ fn.olen = fn.maxlen
            /\ down >= up =>
                  /\ fn.tries = fn.prod
                  /\ fn.start = up
                  /\ fn.olen = down
            /\ fn.start <= fn.olen
            /\ fn.start % fn.tries = 0
            /\ fn.olen % fn.tries = 0

\* the request 4..5 by 3: rounding gives 6 > 3, so it stays 4..5 by 1
AlignedWitness ==
    /\ fn.op = "align"
    /\ fn.prod = 3
    /\ fn.minlen = 4
    /\ fn.maxlen = 5
    /\ fn.start = 4
    /\ fn.olen = 5
    /\ fn.tries = 1

\* C28: no step of a grow frees more than the rtx of one bitmap block: the
\* rtx count of the superblock rises by at most BitsPerBlock in a step.
StepFreesOneBlockAtMost ==
    [][mp'.sb_rextents - mp.sb_rextents <= BitsPerBlock]_vars

\* the region of n rtx has a free run of at least len rtx
HasFreeRun(bm, n, len) ==
    \E s \in 0..(n - len) : \A k \in s..(s + len - 1) : bm[k] = 1

\* C29: with prod = 1 and the summary true to the bitmap,
\* xfs_rtallocate_extent_size, and xfs_rtallocate with or without a block
\* hint, return ENOSPC only when the region has no free run of at least
\* minlen rtx; when it has one, the call succeeds.
SizeFirstComplete ==
    (fn.op \in {"size", "allocate"} /\ fn.prod = 1) =>
        IF HasFreeRun(bitmap, rtg_extents, fn.minlen)
        THEN fn.res.err = "ok"
        ELSE fn.res.err = "ENOSPC"

\* a search by size for 6 rtx that found nothing on 11 rtx of which 7 are
\* free: the run of 5 from rtx 3 reaches to the third bitmap block, to
\* which the search skips
SizeFirstWitness ==
    /\ fn.op = "size"
    /\ fn.minlen = 6
    /\ fn.maxlen = 6
    /\ fn.res.err = "ENOSPC"
    /\ rtg_extents = 11
    /\ \A k \in 3..7 : bitmap[k] = 1
    /\ bitmap[2] = 0 /\ bitmap[8] = 0
    /\ \A k \in 9..10 : bitmap[k] = 1

\* C30: whenever searches can run, after mount and after every return of
\* xfs_growfs_rt, the summary cache of the group is there and has an entry
\* for each of the sb_rbmblocks bitmap blocks.
HintArrayCovers ==
    (grow.state = "idle" /\ mp.sb_rblocks > 0) =>
        /\ rtg_rsum_cache.ok
        /\ rtg_rsum_cache.len >= mp.sb_rbmblocks

\* the positions of event e in the sequence ev
EventsAt(ev, e) == {k \in 1..Len(ev) : ev[k] = e}

\* C31: within one call of xfs_bmap_rtalloc, its retry without alignment
\* included, the bitmap lock of the group is taken once and joined to the
\* transaction once, before the first search; each call of xfs_rtallocate
\* searches once, and the second one takes no lock.
BitmapLockedOnce ==
    fn.op = "bmap" =>
        /\ EventsAt(fn.ev, "lock") = {1}
        /\ EventsAt(fn.ev, "join") = {2}
        /\ Cardinality(EventsAt(fn.ev, "search")) = fn.tries
        /\ \A k \in EventsAt(fn.ev, "search") : k > 2

\* a call that was retried without alignment: two searches under the one
\* lock
BitmapLockedOnceWitness ==
    /\ fn.op = "bmap"
    /\ fn.tries = 2
    /\ fn.ev = <<"lock", "join", "search", "search">>
====
